---- MODULE Spec2Model ----
(***************************************************************************)
(* MultiQC_CMGG: the plugin's report modules as state machines.            *)
(*                                                                         *)
(* Every module is a constructor that the host runs once: it reads the     *)
(* process-wide configuration, walks the files the host's file discovery   *)
(* hands it, builds a sample -> fields mapping and renders sections.       *)
(*                                                                         *)
(* Numbers.  Python floats are modelled as fixed-point hundredths: the     *)
(* fraction 0.60 is 60, the percentage 60.0 is 6000, the depth 10 stays    *)
(* the integer 10.  None is the empty tuple and a present optional value   *)
(* v is <<v>>.  A Python dict whose order matters is a sequence of         *)
(* <<key, value>> pairs with distinct keys, in insertion order.            *)
(***************************************************************************)
EXTENDS Integers, Sequences, FiniteSets, TLC

VARIABLES
    module,               \* which module's constructor this run executes
    pc,                   \* position inside the constructor
    outcome,              \* "running", "ok", or the exception that left the constructor
    config,               \* multiqc.config, the process-wide configuration object
    found,                \* the sample names of the files find_log_files handed out, in order
    cfg,                  \* coverage: self.cfg, what read_config returned
    f,                    \* coverage: the open file handle (what is left to read)
    s_name,               \* coverage: sample name of the file being parsed
    line,                 \* coverage: loop variable of 'for line in f["f"]'
    cum_fraction_by_cov,  \* coverage: depth -> fraction of the file being parsed
    genstats_by_sample,   \* coverage: parse_cov_dist's sample -> statistics
    general_stats,        \* coverage: what general_stats_addcols received (None before)
    dist_files,           \* coverage: the files find_log_files handed out, as <<name, lines>>
    bases_fraction_sum_per_contig_per_sample,  \* coverage: sample -> contig -> summed fraction
    passing_contigs,      \* coverage: the contigs that passed the cutoff
    sections,             \* number of add_section calls made
    data_file,            \* what write_data_file received (None before)
    samplegender_data,    \* sex prediction: sample -> fields, in insertion order
    MSH2_varcount_data,   \* hotspot counts: sample -> fields, in insertion order
    thresholds,           \* MSI: self.coverage_threshold, min_sites_threshold, msi_high_threshold
    data_summary,         \* MSI: parse_summary's sample -> fields, in insertion order
    sample_data,          \* MSI: parse_all's sample -> (locus -> status), in insertion order
    all_loci,             \* MSI: parse_all's set of locus ids
    msisensorpro_data,    \* MSI: what prepare_msisensorpro_data returned (None before)
    warnings              \* the log.warning messages emitted, in order

vars == <<module, pc, outcome, config, found, cfg, f, s_name, line, cum_fraction_by_cov,
          genstats_by_sample, general_stats, dist_files,
          bases_fraction_sum_per_contig_per_sample, passing_contigs, sections, data_file,
          samplegender_data, MSH2_varcount_data,
          thresholds, data_summary, sample_data, all_loci,
          msisensorpro_data, warnings>>

\* what each module's constructor leaves alone
contigVars == <<dist_files, bases_fraction_sum_per_contig_per_sample, passing_contigs>>
covVars == <<cfg, f, s_name, line, cum_fraction_by_cov, genstats_by_sample, general_stats,
             contigVars>>
sexVars == <<samplegender_data>>
hotVars == <<MSH2_varcount_data>>
msiVars == <<thresholds, data_summary, sample_data, all_loci, msisensorpro_data, warnings>>
notCov == <<sexVars, hotVars, msiVars>>
notSex == <<covVars, hotVars, msiVars>>
notHot == <<covVars, sexVars, msiVars>>
notMsi == <<covVars, sexVars, hotVars>>

None == <<>>
Some(v) == <<v>>

\* the per-contig state of the coverage module before parse_cov_dist runs
ContigIdle ==
    /\ dist_files = <<>>
    /\ bases_fraction_sum_per_contig_per_sample = <<>>
    /\ passing_contigs = {}

\* the MSI module's state before its constructor runs
MsiIdle ==
    /\ thresholds = None
    /\ data_summary = <<>>
    /\ sample_data = <<>>
    /\ all_loci = {}
    /\ msisensorpro_data = None
    /\ warnings = <<>>

Range(s) == {s[i] : i \in 1..Len(s)}

(***************************************************************************)
(* Insertion-ordered dictionaries.                                         *)
(***************************************************************************)
DictKeys(d) == {d[i][1] : i \in 1..Len(d)}

DictGet(d, k, default) ==
    IF k \in DictKeys(d)
    THEN d[CHOOSE i \in 1..Len(d) : d[i][1] = k][2]
    ELSE default

DictSet(d, k, v) ==
    IF k \in DictKeys(d)
    THEN [i \in 1..Len(d) |-> IF d[i][1] = k THEN <<k, v>> ELSE d[i]]
    ELSE Append(d, <<k, v>>)

(***************************************************************************)
(* Text.  A line of a file is its tab-separated columns and whether it     *)
(* ends in a newline; only the last line of a file can lack one.           *)
(***************************************************************************)
MaxDepth == 500

FracTokens == {"0.00", "0.40", "0.50", "0.60", "1.00"}

\* str.split("\t") of a line read from a file handle: the newline stays on the last field
SplitTabs(l) ==
    IF l.nl
    THEN [i \in 1..Len(l.cols) |-> IF i = Len(l.cols) THEN l.cols[i] \o "\n" ELSE l.cols[i]]
    ELSE l.cols

\* the decimal literals of the depths the model reads
IntLiterals == [d \in 0..MaxDepth |-> ToString(d)]

\* the words a field can hold besides a depth
Words == FracTokens \cup {"total", "chr1", "x", "abc", ""}

\* int() and float() skip surrounding white space
Strip(s) ==
    IF \E w \in Words : s = w \o "\n"
    THEN CHOOSE w \in Words : s = w \o "\n"
    ELSE s

IsIntLiteral(s) == LET w == Strip(s) IN \E d \in 0..MaxDepth : IntLiterals[d] = w

IntOf(s) == LET w == Strip(s) IN CHOOSE d \in 0..MaxDepth : IntLiterals[d] = w

IsFloatLiteral(s) == Strip(s) \in FracTokens \/ IsIntLiteral(s)

\* float(s) in hundredths
FloatOf(s) ==
    CASE Strip(s) = "0.00" -> 0
      [] Strip(s) = "0.40" -> 40
      [] Strip(s) = "0.50" -> 50
      [] Strip(s) = "0.60" -> 60
      [] Strip(s) = "1.00" -> 100
      [] OTHER -> 100 * IntOf(s)

(***************************************************************************)
(* coverage.py: the statistics of one depth -> fraction mapping.           *)
(***************************************************************************)
SmoothPoints == 500

DefaultCovThresholds == <<1, 5, 10, 30, 50>>

\* config.get_cov_thresholds("mosdepth_config"): the configured list, else the default
CovThresholds(c) ==
    IF c.mosdepth_config.kind = "dict" /\ c.mosdepth_config.general_stats_coverage # <<>>
    THEN c.mosdepth_config.general_stats_coverage
    ELSE DefaultCovThresholds

\* f"{t}_x_pc"
XPcKey(t) == ToString(t) \o "_x_pc"

genstats_cov_thresholds_NoDefault(cum, threshs) ==
    [k \in {XPcKey(t) : t \in Range(threshs) \cap DictKeys(cum)} |->
        DictGet(cum, CHOOSE t \in Range(threshs) : XPcKey(t) = k, 0) * 100]

genstats_cov_thresholds(cum, threshs) ==
    [k \in {XPcKey(t) : t \in Range(threshs)} |->
        DictGet(cum, CHOOSE t \in Range(threshs) : XPcKey(t) = k, 0) * 100]

\* sorted(d.items(), reverse=True): the keys are distinct, so the order is by key
SortedReverse(d) ==
    LET ranked == {<<Cardinality({j \in 1..Len(d) : d[j][1] > d[i][1]}) + 1, i>> :
                      i \in 1..Len(d)}
    IN  [r \in 1..Len(d) |-> d[(CHOOSE p \in ranked : p[1] = r)[2]]]

\* the loop of lines 67-70 stops at the first item that satisfies its test
FirstIndex(hits) == CHOOSE r \in hits : \A q \in hits : r <= q

calc_median_coverage_Strict(cum) ==
    LET items == SortedReverse(cum)
        hits == {r \in 1..Len(items) : items[r][2] > 50}
    IN  IF hits = {} THEN None ELSE Some(items[FirstIndex(hits)][1])

calc_median_coverage(cum) ==
    LET items == SortedReverse(cum)
        hits == {r \in 1..Len(items) : items[r][2] >= 50}
    IN  IF hits = {} THEN None ELSE Some(items[FirstIndex(hits)][1])

\* multiqc.plots.linegraph.smooth_array: n_points evenly spaced items, ends included
smooth_array(arr, n_points) ==
    IF Len(arr) <= n_points THEN arr
    ELSE [i \in 1..n_points |-> arr[((i - 1) * (Len(arr) - 1)) \div (n_points - 1) + 1]]

(***************************************************************************)
(* coverage.py, parse_cov_dist: the body of 'for line in f["f"]'.          *)
(***************************************************************************)
NoLine == [cols |-> <<>>, nl |-> TRUE]

\* the result of one pass through the loop body: the mapping, or the exception raised
Raised(e, cum) == [err |-> e, cum |-> cum]
Fine(cum) == [err |-> "", cum |-> cum]

LoopBody_Complement(cum, l) ==
    LET cols == SplitTabs(l) IN
    IF Len(cols) # 3 THEN Raised("ValueError", cum)
    ELSE IF cols[3] = "0.00\n" THEN Fine(cum)
    ELSE IF cols[1] # "total" THEN Fine(cum)
    ELSE IF ~IsFloatLiteral(cols[3]) \/ ~IsIntLiteral(cols[2]) THEN Raised("ValueError", cum)
    ELSE Fine(DictSet(cum, IntOf(cols[2]), 100 - FloatOf(cols[3])))

\* lines 450-457: one pass through the loop body
LoopBody(cum, l) ==
    LET cols == SplitTabs(l) IN
    IF Len(cols) # 3 THEN Raised("ValueError", cum)
    ELSE IF cols[3] = "0.00\n" THEN Fine(cum)
    ELSE IF cols[1] # "total" THEN Fine(cum)
    ELSE IF ~IsFloatLiteral(cols[3]) \/ ~IsIntLiteral(cols[2]) THEN Raised("ValueError", cum)
    ELSE Fine(DictSet(cum, IntOf(cols[2]), FloatOf(cols[3])))

\* lines 484-489: the sample's statistics from the mapping as parsed
SampleStats(cum, threshs) ==
    genstats_cov_thresholds(cum, threshs) @@ ("median_coverage" :> calc_median_coverage(cum))

(***************************************************************************)
(* The inputs.  The host's configuration and the files it discovers.       *)
(***************************************************************************)
Absent == [t |-> "absent"]
ListVal(v) == [t |-> "list", v |-> v]
StrVal(v) == [t |-> "str", v |-> v]
FloatVal(v) == [t |-> "float", v |-> v]

MosdepthDict(threshs, inc, exc, cutoff) ==
    [kind |-> "dict", general_stats_coverage |-> threshs,
     include_contigs |-> inc, exclude_contigs |-> exc, perchrom_fraction_cutoff |-> cutoff]

MosdepthConfigs ==
    {[kind |-> "unset"], [kind |-> "other"]}
    \cup {MosdepthDict(t, Absent, Absent, Absent) : t \in {<<>>, <<10, 20>>, <<20>>, <<10>>}}
    \cup {MosdepthDict(<<10, 20>>, ListVal(<<"chr*">>), StrVal("chrM"), FloatVal(1)),
          MosdepthDict(<<20>>, Absent, ListVal(<<"chrM">>), StrVal("abc"))}

\* the attributes of multiqc.config the plugin's modules touch; an attribute that is
\* unset or None is None, and "show_hide_patterns,show_hide_color" is the attribute
\* that line 330 of coverage.py names
Config(mosdepth, ignore) ==
    [mosdepth_config |-> mosdepth,
     sample_names_ignore |-> ignore,
     show_hide_buttons |-> None,
     show_hide_patterns |-> None,
     show_hide_mode |-> None,
     show_hide_color |-> None]
    @@ ("show_hide_patterns,show_hide_color" :> None)

\* a sample name is its parts between underscores: S2_a is <<"S2", "a">>
SampleNames == {<<"S1">>, <<"S2">>, <<"S2", "a">>}

\* self.cfg before read_config has run
NoCfg == [kind |-> "none"]

\* the lines a coverage distribution file is made of
TotalRows ==
    {<<"total", "0", t>> : t \in {"0.00", "1.00"}}
    \cup {<<"total", "10", t>> : t \in {"0.00", "0.40", "0.50", "0.60"}}
    \cup {<<"total", "20", t>> : t \in {"0.00", "0.40", "0.50"}}

ContigRows == {<<"chr1", "10", "0.60">>, <<"chr1", "0", "0.00">>, <<"chr1", "x", "0.60">>}

MalformedRows ==
    {<<"total", "10">>, <<"total", "10", "0.60", "x">>, <<"total", "x", "0.60">>,
     <<"total", "10", "abc">>, <<"">>}

\* the rows that also occur as a last line without its newline
UnterminatedRows ==
    {<<"total", "0", "0.00">>, <<"total", "20", "0.00">>, <<"total", "0", "1.00">>,
     <<"chr1", "0", "0.00">>, <<"total", "10">>}

CovLines ==
    {[cols |-> c, nl |-> TRUE] : c \in TotalRows \cup ContigRows \cup MalformedRows}
    \cup {[cols |-> c, nl |-> FALSE] : c \in UnterminatedRows}

\* a file handle: any lines, or the rows total/d/0.60 for d = next down to 0, or exhausted
AnyLines == [kind |-> "lines", next |-> 0]
RunFrom(d) == [kind |-> "run", next |-> d]
Exhausted == [kind |-> "end", next |-> 0]

RunLine(d, n) == [cols |-> <<"total", ToString(d), "0.60">>, nl |-> n]

(***************************************************************************)
(* coverage.py, parse_cov_dist, one file: lines 447-492.                   *)
(***************************************************************************)
\* one pass of 'for line in f["f"]': the next line and the loop body, lines 450-457
Step(l, rest) ==
    LET r == LoopBody(cum_fraction_by_cov, l) IN
       /\ line' = l
       /\ f' = rest
       /\ cum_fraction_by_cov' = r.cum
       /\ outcome' = IF r.err = "" THEN outcome ELSE r.err
       /\ pc' = IF r.err = "" THEN "read" ELSE "raised"

ReadLine ==
    /\ module = "coverage" /\ pc = "read" /\ outcome = "running"
    /\ \/ /\ f.kind = "lines"
          /\ \E l \in CovLines : Step(l, IF l.nl THEN f ELSE Exhausted)
       \/ /\ f.kind = "run"
          /\ \E n \in (IF f.next = 0 THEN BOOLEAN ELSE {TRUE}) :
                Step(RunLine(f.next, n),
                     IF f.next = 0 THEN Exhausted ELSE RunFrom(f.next - 1))
    /\ UNCHANGED <<module, config, found, cfg, s_name,
                   genstats_by_sample, general_stats, sections, data_file, notCov, contigVars>>

\* the file has no more lines: the for loop ends
EndOfFile ==
    /\ module = "coverage" /\ pc = "read" /\ outcome = "running"
    /\ f.kind \in {"lines", "end"}
    /\ f' = Exhausted
    /\ pc' = "stats"
    /\ UNCHANGED <<module, outcome, config, found, cfg, s_name, line, cum_fraction_by_cov,
                   genstats_by_sample, general_stats, sections, data_file, notCov, contigVars>>

\* lines 484-489
StoreStats_Downsampled ==
    /\ module = "coverage" /\ pc = "stats"
    /\ genstats_by_sample' =
          (s_name :> SampleStats(smooth_array(cum_fraction_by_cov, SmoothPoints),
                                 CovThresholds(config)))
          @@ genstats_by_sample
    /\ pc' = "downsample"
    /\ UNCHANGED <<module, outcome, config, found, cfg, f, s_name, line, cum_fraction_by_cov,
                   general_stats, sections, data_file, notCov, contigVars>>

StoreStats ==
    /\ module = "coverage" /\ pc = "stats"
    /\ genstats_by_sample' =
          (s_name :> SampleStats(cum_fraction_by_cov, CovThresholds(config)))
          @@ genstats_by_sample
    /\ pc' = "downsample"
    /\ UNCHANGED <<module, outcome, config, found, cfg, f, s_name, line, cum_fraction_by_cov,
                   general_stats, sections, data_file, notCov, contigVars>>

Downsample_Skipped ==
    /\ module = "coverage" /\ pc = "downsample"
    /\ cum_fraction_by_cov' = cum_fraction_by_cov
    /\ pc' = "file_done"
    /\ UNCHANGED <<module, outcome, config, found, cfg, f, s_name, line,
                   genstats_by_sample, general_stats, sections, data_file, notCov, contigVars>>

\* line 492
Downsample ==
    /\ module = "coverage" /\ pc = "downsample"
    /\ cum_fraction_by_cov' = smooth_array(cum_fraction_by_cov, SmoothPoints)
    /\ pc' = "file_done"
    /\ UNCHANGED <<module, outcome, config, found, cfg, f, s_name, line,
                   genstats_by_sample, general_stats, sections, data_file, notCov, contigVars>>

\* one distribution file, from the first line to the downsampled series
InitCovFile ==
    /\ module = "coverage" /\ pc = "read" /\ outcome = "running"
    /\ config \in {Config(m, {}) : m \in {[kind |-> "unset"],
                                            MosdepthDict(<<10, 20>>, Absent, Absent, Absent)}}
    /\ cfg = NoCfg
    /\ found = <<<<"S1">>>>
    /\ f \in {AnyLines, RunFrom(MaxDepth)}
    /\ s_name = <<"S1">>
    /\ line = NoLine
    /\ cum_fraction_by_cov = <<>>
    /\ genstats_by_sample = <<>>
    /\ general_stats = None
    /\ sections = 0
    /\ data_file = None
    /\ samplegender_data = <<>>
    /\ MSH2_varcount_data = <<>>
    /\ MsiIdle
    /\ ContigIdle

NextCovFile == ReadLine \/ EndOfFile \/ StoreStats \/ Downsample

SpecCovFile == InitCovFile /\ [][NextCovFile]_vars

(***************************************************************************)
(* Claims about one distribution file (SpecCovFile).                       *)
(***************************************************************************)
\* the depths of a mapping whose fraction is at least 0.5
DepthsAtLeastHalf(cum) == {k \in DictKeys(cum) : DictGet(cum, k, 0) >= 50}

LargestOf(S) == CHOOSE k \in S : \A j \in S : j <= k

StatsOf(s) == genstats_by_sample[s]

\* C1: for every depth -> fraction mapping the stored median is the largest depth
\* whose fraction is >= 0.5, and None when no depth has one (the empty mapping too).
C1_MedianIsLargestDepthAtLeastHalf ==
    pc = "downsample" =>
        StatsOf(s_name)["median_coverage"] =
            IF DepthsAtLeastHalf(cum_fraction_by_cov) = {} THEN None
            ELSE Some(LargestOf(DepthsAtLeastHalf(cum_fraction_by_cov)))

\* the mapping {0: 1.0, 10: 0.6, 20: 0.4} has median 10
C1_Witness ==
    /\ pc = "downsample"
    /\ Range(cum_fraction_by_cov) = {<<0, 100>>, <<10, 60>>, <<20, 40>>}
    /\ StatsOf(s_name)["median_coverage"] = Some(10)

\* C2: the statistics hold exactly one key "{t}_x_pc" per requested threshold t, whose
\* value is 100 times the fraction stored at depth t, and 0.0 when depth t is absent.
C2_ThresholdsTotal ==
    pc = "downsample" =>
        LET threshs == Range(CovThresholds(config)) IN
        /\ DOMAIN StatsOf(s_name) \ {"median_coverage"} = {XPcKey(t) : t \in threshs}
        /\ \A t \in threshs :
              StatsOf(s_name)[XPcKey(t)] =
                  IF t \in DictKeys(cum_fraction_by_cov)
                  THEN 100 * DictGet(cum_fraction_by_cov, t, 0)
                  ELSE 0

\* thresholds 10 and 20 requested, depth 10 at 0.6 and depth 20 not in the file
C2_Witness ==
    /\ pc = "downsample"
    /\ CovThresholds(config) = <<10, 20>>
    /\ DictKeys(cum_fraction_by_cov) = {0, 10}
    /\ DOMAIN StatsOf(s_name) = {"10_x_pc", "20_x_pc", "median_coverage"}
    /\ StatsOf(s_name)["10_x_pc"] = 6000
    /\ StatsOf(s_name)["20_x_pc"] = 0

\* C5: the stored threshold statistics and median are those of the full parsed series,
\* and the downsampling step that follows leaves every sample's statistics as they are.
C5_StatsBeforeDownsampling ==
    [][pc = "downsample" =>
          /\ \A t \in Range(CovThresholds(config)) :
                StatsOf(s_name)[XPcKey(t)] = 100 * DictGet(cum_fraction_by_cov, t, 0)
          /\ StatsOf(s_name)["median_coverage"] =
                IF DepthsAtLeastHalf(cum_fraction_by_cov) = {} THEN None
                ELSE Some(LargestOf(DepthsAtLeastHalf(cum_fraction_by_cov)))
          /\ genstats_by_sample' = genstats_by_sample]_vars

\* a series of more than 500 points was cut to 500, depth 1 among the points dropped,
\* and the sample still reports 60% at 1X
C5_Witness ==
    /\ pc = "file_done"
    /\ Len(cum_fraction_by_cov) = SmoothPoints
    /\ 1 \notin DictKeys(cum_fraction_by_cov)
    /\ "1_x_pc" \in DOMAIN StatsOf(s_name)
    /\ StatsOf(s_name)["1_x_pc"] = 6000

\* C6: a line whose fraction field is "0.00" is skipped wherever it stands in the file,
\* the last line without a newline included; of the other lines only the "total" ones
\* enter the mapping, under the integer depth, with the fraction as value.
C6_ZeroLinesSkipped ==
    [][(pc = "read" /\ pc' = "read") =>
          cum_fraction_by_cov' =
              IF line'.cols[3] = "0.00" \/ line'.cols[1] # "total"
              THEN cum_fraction_by_cov
              ELSE DictSet(cum_fraction_by_cov, IntOf(line'.cols[2]), FloatOf(line'.cols[3]))]_vars

(***************************************************************************)
(* coverage.py, MultiqcModule.__init__: the constructor from read_config   *)
(* to general_stats_addcols.                                               *)
(***************************************************************************)
MaxFiles == 2

Row(c) == [cols |-> c, nl |-> TRUE]
LastRow(c) == [cols |-> c, nl |-> FALSE]

\* the region distribution files the host can discover
CovFiles ==
    {<<>>,
     <<Row(<<"total", "20", "1.00">>), Row(<<"total", "0", "1.00">>)>>,
     <<Row(<<"chr1", "0", "1.00">>), Row(<<"total", "20", "0.40">>),
       Row(<<"total", "10", "0.60">>), Row(<<"total", "0", "1.00">>)>>,
     <<Row(<<"total", "20", "0.00">>), Row(<<"total", "0", "1.00">>)>>,
     <<Row(<<"total", "20", "0.50">>), Row(<<"total", "10", "0.40">>),
       Row(<<"total", "0", "1.00">>)>>,
     <<Row(<<"total", "20", "0.50">>), Row(<<"total", "20", "0.00">>),
       Row(<<"total", "0", "1.00">>)>>,
     <<Row(<<"total", "0", "1.00">>), Row(<<"total", "10">>)>>,
     <<Row(<<"total", "x", "0.60">>)>>,
     <<Row(<<"total", "0", "1.00">>), Row(<<"">>)>>}

read_config_ThresholdsReset(c) ==
    LET mc == c.mosdepth_config
        asList(v) == IF v.t = "list" THEN v ELSE ListVal(<<>>)
        cutoff(v) == IF v.t = "float" THEN v ELSE FloatVal(0)
        filled(d) == [d EXCEPT !.include_contigs = asList(@),
                               !.exclude_contigs = asList(@),
                               !.perchrom_fraction_cutoff = cutoff(@)]
    IN  CASE mc.kind = "unset" ->
                [err |-> "", config |-> c,
                 cfg |-> filled(MosdepthDict(<<>>, Absent, Absent, Absent))]
          [] mc.kind = "other" ->
                [err |-> "", config |-> c, cfg |-> [kind |-> "empty"]]
          [] mc.kind = "dict" /\ mc.perchrom_fraction_cutoff.t = "list" ->
                [err |-> "TypeError",
                 config |-> [c EXCEPT !.mosdepth_config.include_contigs = asList(@),
                                      !.mosdepth_config.exclude_contigs = asList(@)],
                 cfg |-> NoCfg]
          [] OTHER ->
                [err |-> "", config |-> [c EXCEPT !.mosdepth_config = filled([mc EXCEPT !.general_stats_coverage = <<>>])],
                 cfg |-> filled(mc)]

\* float() of a configured value: the number, ValueError for other text, TypeError for a list
\* lines 16-55
read_config(c) ==
    LET mc == c.mosdepth_config
        asList(v) == IF v.t = "list" THEN v ELSE ListVal(<<>>)
        cutoff(v) == IF v.t = "float" THEN v ELSE FloatVal(0)
        filled(d) == [d EXCEPT !.include_contigs = asList(@),
                               !.exclude_contigs = asList(@),
                               !.perchrom_fraction_cutoff = cutoff(@)]
    IN  CASE mc.kind = "unset" ->
                [err |-> "", config |-> c,
                 cfg |-> filled(MosdepthDict(<<>>, Absent, Absent, Absent))]
          [] mc.kind = "other" ->
                [err |-> "", config |-> c, cfg |-> [kind |-> "empty"]]
          [] mc.kind = "dict" /\ mc.perchrom_fraction_cutoff.t = "list" ->
                [err |-> "TypeError",
                 config |-> [c EXCEPT !.mosdepth_config.include_contigs = asList(@),
                                      !.mosdepth_config.exclude_contigs = asList(@)],
                 cfg |-> NoCfg]
          [] OTHER ->
                [err |-> "", config |-> [c EXCEPT !.mosdepth_config = filled(mc)],
                 cfg |-> filled(mc)]

\* line 181
CovReadConfig ==
    /\ module = "coverage" /\ pc = "start"
    /\ LET r == read_config(config) IN
          /\ config' = r.config
          /\ cfg' = r.cfg
          /\ outcome' = IF r.err = "" THEN outcome ELSE r.err
          /\ pc' = IF r.err = "" THEN "parse" ELSE "raised"
    /\ UNCHANGED <<module, found, f, s_name, line, cum_fraction_by_cov,
                   genstats_by_sample, general_stats, sections, data_file, notCov, contigVars>>

\* the for loop of lines 450-457 over a whole file
RECURSIVE ParseLines(_, _, _)
ParseLines(cum, lines, i) ==
    IF i > Len(lines) THEN [err |-> "", cum |-> cum, at |-> Len(lines)]
    ELSE LET r == LoopBody(cum, lines[i]) IN
         IF r.err # "" THEN [err |-> r.err, cum |-> r.cum, at |-> i]
         ELSE ParseLines(r.cum, lines, i + 1)

\* lines 439-492: one more file of find_log_files, parsed to its statistics
CovParseFile ==
    /\ module = "coverage" /\ pc = "parse"
    /\ Len(found) < MaxFiles
    /\ \E s \in SampleNames, content \in CovFiles :
          LET r == ParseLines(<<>>, content, 1) IN
          /\ found' = Append(found, s)
          /\ dist_files' = Append(dist_files, <<s, content>>)
          /\ s_name' = s
          /\ line' = IF r.at = 0 THEN line ELSE content[r.at]
          /\ IF r.err # ""
             THEN /\ outcome' = r.err
                  /\ pc' = "raised"
                  /\ cum_fraction_by_cov' = r.cum
                  /\ UNCHANGED genstats_by_sample
             ELSE /\ genstats_by_sample' =
                        (s :> SampleStats(r.cum, CovThresholds(config))) @@ genstats_by_sample
                  /\ cum_fraction_by_cov' = smooth_array(r.cum, SmoothPoints)
                  /\ UNCHANGED <<outcome, pc>>
    /\ UNCHANGED <<module, config, cfg, f, general_stats, sections, data_file, notCov,
                   bases_fraction_sum_per_contig_per_sample, passing_contigs>>

RECURSIVE SumOf(_, _)
SumOf(d, i) == IF i > Len(d) THEN 0 ELSE d[i][2] + SumOf(d, i + 1)

\* the contigs of a sample -> contig -> sum mapping
ContigsOf(per_sample) ==
    UNION {DictKeys(per_sample[i][2]) : i \in 1..Len(per_sample)}

\* lines 500-505: the coverage of a contig summed over the samples
RECURSIVE total_cov_per_contig(_, _, _)
total_cov_per_contig(per_sample, contig, i) ==
    IF i > Len(per_sample) THEN 0
    ELSE DictGet(per_sample[i][2], contig, 0) + total_cov_per_contig(per_sample, contig, i + 1)

\* lines 501-505: the coverage of all contigs of all samples
RECURSIVE total_cov(_, _)
total_cov(per_sample, i) ==
    IF i > Len(per_sample) THEN 0
    ELSE SumOf(per_sample[i][2], 1) + total_cov(per_sample, i + 1)

\* lines 508-514: req_cov = total_cov * cutoff, and the contigs strictly above it
\* (sums and cutoff are hundredths, so the sum is scaled by 100 for the comparison)
passing(per_sample, cutoff) ==
    {contig \in ContigsOf(per_sample) :
        total_cov_per_contig(per_sample, contig, 1) * 100 > total_cov(per_sample, 1) * cutoff}

\* lines 516-524: only the passing contigs are kept, and a sample without any has no entry
filtered_perchrom_avg_data(per_sample, pass) ==
    LET kept(d) == SelectSeq(d, LAMBDA e : e[1] \in pass)
    IN  SelectSeq([i \in 1..Len(per_sample) |-> <<per_sample[i][1], kept(per_sample[i][2])>>],
                  LAMBDA e : e[2] # <<>>)

\* lines 556-561: the depth-0 row, which is always 1, is taken out of every sum
CorrectPerContig(per_sample) ==
    [i \in 1..Len(per_sample) |->
        <<per_sample[i][1],
          [j \in 1..Len(per_sample[i][2]) |->
              <<per_sample[i][2][j][1], per_sample[i][2][j][2] - 100>>]>>]

\* lines 498-568: the cutoff is read from self.cfg and applied to the per-contig sums,
\* which no line of the file loop has filled
CovEndParse ==
    /\ module = "coverage" /\ pc = "parse"
    /\ IF cfg.kind = "empty"
       THEN /\ outcome' = "KeyError" /\ pc' = "raised"
            /\ UNCHANGED <<bases_fraction_sum_per_contig_per_sample, passing_contigs>>
       ELSE LET pass == passing(bases_fraction_sum_per_contig_per_sample,
                                cfg.perchrom_fraction_cutoff.v)
            IN  /\ passing_contigs' = pass
                /\ bases_fraction_sum_per_contig_per_sample' =
                      CorrectPerContig(filtered_perchrom_avg_data(
                          bases_fraction_sum_per_contig_per_sample, pass))
                /\ outcome' = outcome /\ pc' = "check"
    /\ UNCHANGED <<module, config, found, cfg, f, s_name, line, cum_fraction_by_cov,
                   genstats_by_sample, general_stats, sections, data_file, notCov,
                   dist_files>>

\* BaseMultiqcModule.ignore_samples: the samples the host was told to ignore are removed
ignore_samples(data, c) ==
    [s \in DOMAIN data \ c.sample_names_ignore |-> data[s]]

CovCheckSamples_NoRaise ==
    /\ module = "coverage" /\ pc = "check"
    /\ genstats_by_sample' = ignore_samples(genstats_by_sample, config)
    /\ pc' = "buttons"
    /\ UNCHANGED <<module, outcome, config, found, cfg, f, s_name, line, cum_fraction_by_cov,
                   general_stats, sections, data_file, notCov, contigVars>>

\* lines 187-194 and 204-213, 326-327: from here on genstats_by_sample is the
\* constructor's, into which the parsed statistics are merged
CovCheckSamples ==
    /\ module = "coverage" /\ pc = "check"
    /\ LET kept == ignore_samples(genstats_by_sample, config) IN
          /\ genstats_by_sample' = kept
          /\ IF DOMAIN kept = {}
             THEN outcome' = "ModuleNoSamplesFound" /\ pc' = "raised"
             ELSE outcome' = outcome /\ pc' = "buttons"
    /\ UNCHANGED <<module, config, found, cfg, f, s_name, line, cum_fraction_by_cov,
                   general_stats, sections, data_file, notCov, contigVars>>

\* lines 340-355: one pass of the loop over the files, on the lists built so far
ButtonStep(b, s, stats) ==
    LET name == s[1]
        names == IF name \in Range(b.names) THEN b.names ELSE Append(b.names, name)
        modes == IF name \in Range(b.names) THEN b.modes ELSE Append(b.modes, "show")
        consulted == Len(s) = 1 /\ s \in DOMAIN stats
        seen == IF name \in DictKeys(b.colors) THEN b.colors ELSE DictSet(b.colors, name, "")
    IN  IF ~consulted THEN [b EXCEPT !.names = names, !.modes = modes]
        ELSE IF "20_x_pc" \notin DOMAIN stats[s]
        THEN [b EXCEPT !.names = names, !.modes = modes, !.colors = seen, !.err = "KeyError"]
        ELSE LET red == IF stats[s]["20_x_pc"] < 9000
                        THEN DictSet(seen, name, "#d9534f") ELSE seen
                 green == IF stats[s]["20_x_pc"] >= 9000 /\ DictGet(red, name, "") # "#d9534f"
                          THEN DictSet(red, name, "#5cb85c") ELSE red
             IN  [b EXCEPT !.names = names, !.modes = modes, !.colors = green]

RECURSIVE ButtonLoop(_, _, _, _)
ButtonLoop(b, files, i, stats) ==
    IF i > Len(files) \/ b.err # "" THEN b
    ELSE ButtonLoop(ButtonStep(b, files[i], stats), files, i + 1, stats)

DictValues(d) == [i \in 1..Len(d) |-> d[i][2]]

\* lines 329-362
CovButtons ==
    /\ module = "coverage" /\ pc = "buttons"
    /\ LET b == ButtonLoop([names |-> <<>>, modes |-> <<>>, colors |-> <<>>, err |-> ""],
                           found, 1, genstats_by_sample)
           defaulted == [k \in DOMAIN config |->
                           IF k \in {"show_hide_buttons", "show_hide_mode",
                                     "show_hide_patterns,show_hide_color"}
                              /\ config[k] = None
                           THEN Some(<<>>) ELSE config[k]]
       IN  IF b.err # ""
           THEN /\ config' = defaulted
                /\ outcome' = b.err
                /\ pc' = "raised"
           ELSE /\ config' = [defaulted EXCEPT !.show_hide_buttons = Some(b.names),
                                               !.show_hide_patterns = Some(b.names),
                                               !.show_hide_mode = Some(b.modes),
                                               !.show_hide_color = Some(DictValues(b.colors))]
                /\ outcome' = outcome
                /\ pc' = "genstats"
    /\ UNCHANGED <<module, found, cfg, f, s_name, line, cum_fraction_by_cov,
                   genstats_by_sample, general_stats, sections, data_file, notCov, contigVars>>

\* lines 364-392
CovGeneralStats ==
    /\ module = "coverage" /\ pc = "genstats"
    /\ general_stats' =
          Some([data |-> genstats_by_sample,
                headers |-> {XPcKey(t) : t \in Range(CovThresholds(config))}
                            \cup {"median_coverage"}])
    /\ outcome' = "ok"
    /\ pc' = "done"
    /\ UNCHANGED <<module, config, found, cfg, f, s_name, line, cum_fraction_by_cov,
                   genstats_by_sample, sections, data_file, notCov, contigVars>>

InitCov ==
    /\ module = "coverage" /\ pc = "start" /\ outcome = "running"
    /\ config \in {Config(m, i) : m \in MosdepthConfigs, i \in {{}, {<<"S1">>}}}
    /\ cfg = NoCfg
    /\ found = <<>>
    /\ f = Exhausted
    /\ s_name = <<>>
    /\ line = NoLine
    /\ cum_fraction_by_cov = <<>>
    /\ genstats_by_sample = <<>>
    /\ general_stats = None
    /\ sections = 0
    /\ data_file = None
    /\ samplegender_data = <<>>
    /\ MSH2_varcount_data = <<>>
    /\ MsiIdle
    /\ ContigIdle

NextCov ==
    \/ CovReadConfig \/ CovParseFile \/ CovEndParse \/ CovCheckSamples
    \/ CovButtons \/ CovGeneralStats

SpecCov == InitCov /\ [][NextCov]_vars

(***************************************************************************)
(* Claims about malformed input and about the constructor's exits.         *)
(***************************************************************************)
\* a line that is not 'contig <TAB> integer depth <TAB> fraction'
Malformed(l) ==
    \/ Len(l.cols) # 3
    \/ ~IsIntLiteral(l.cols[2])
    \/ ~IsFloatLiteral(l.cols[3])

\* C7: reading a malformed coverage line (column count other than three, non-integer
\* depth, non-numeric fraction) fails with a ParseError naming the line and the sample.
C7_MalformedLineRaisesParseError ==
    [][(pc = "read" /\ pc' \in {"read", "raised"} /\ Malformed(line'))
          => (pc' = "raised" /\ outcome' = "ParseError")]_vars

ShowHideUnwritten(c) ==
    /\ c.show_hide_buttons = None /\ c.show_hide_patterns = None
    /\ c.show_hide_mode = None /\ c.show_hide_color = None

\* C9: when no region distribution file yields a sample once the ignored samples are
\* removed, the constructor raises ModuleNoSamplesFound, and at that point no general
\* statistics column has been added and none of config.show_hide_* has been written.
C9_NoSamplesRaisesFirst ==
    [][(pc = "check" /\ DOMAIN genstats_by_sample \subseteq config.sample_names_ignore)
          => /\ outcome' = "ModuleNoSamplesFound"
             /\ pc' = "raised"
             /\ general_stats' = None
             /\ ShowHideUnwritten(config')]_vars

\* a file was parsed, its only sample is ignored, and the constructor left with the signal
C9_Witness ==
    /\ outcome = "ModuleNoSamplesFound"
    /\ found = <<<<"S1">>>>
    /\ <<"S1">> \in config.sample_names_ignore
    /\ general_stats = None
    /\ ShowHideUnwritten(config)

\* the exceptions a bad record of an input file raises
RecordErrors == {"ValueError", "ZeroDivisionError"}

\* C10: a bad record in one sample's file never makes the constructor leave with an
\* exception: the run goes on with the other samples, and only the no-samples
\* condition stops a module.
C10_BadRecordContained == outcome \notin RecordErrors

(***************************************************************************)
(* sample_gender.py: the sex prediction module.  A file is a sequence of   *)
(* lines and a line the sequence of its tab-separated columns; a field of  *)
(* a sample is StrVal(text), FloatVal(hundredths) or Ratio(n, d).          *)
(***************************************************************************)
Ratio(n, d) == [t |-> "ratio", num |-> n, den |-> d]

\* the texts float() reads as not-a-number
NaNTexts == {"nan", "NaN"}

\* the numbers the metric columns hold, in hundredths
NumberTable ==
    ("100" :> 10000) @@ ("1000" :> 100000) @@ ("0.10" :> 10) @@ ("0.20" :> 20)
    @@ ("50" :> 5000) @@ ("40" :> 4000) @@ ("10" :> 1000) @@ ("35.50" :> 3550)

FieldValue_NaNKept(v) ==
    IF v \in DOMAIN NumberTable THEN FloatVal(NumberTable[v])
    ELSE IF v \in NaNTexts THEN FloatVal("nan")
    ELSE StrVal(v)

\* lines 165-170: float(value), "N/A" for a NaN, the text itself when float() fails
FieldValue(v) ==
    IF v \in DOMAIN NumberTable THEN FloatVal(NumberTable[v])
    ELSE IF v \in NaNTexts THEN StrVal("N/A")
    ELSE StrVal(v)

\* line.strip().split(sep) on the separated fields of a line: the empty fields at
\* both ends go with the whitespace, and a blank line is one empty field
StripLine(cols) ==
    LET kept == {i \in 1..Len(cols) : cols[i] # ""}
    IN  IF kept = {} THEN <<"">>
        ELSE SubSeq(cols, CHOOSE i \in kept : \A j \in kept : i <= j,
                          CHOOSE i \in kept : \A j \in kept : j <= i)

Min(a, b) == IF a <= b THEN a ELSE b

\* seq[1:6]
Columns2To6(cols) == SubSeq(cols, 2, IF Len(cols) < 6 THEN Len(cols) ELSE 6)

\* lines 159-162
RenameFirst(headers) ==
    LET xy == IF "reads_chry" \in Range(headers)
              THEN [headers EXCEPT ![1] = "gender_xy"] ELSE headers
        hetx == IF "het_fraction" \in Range(xy)
                THEN [xy EXCEPT ![1] = "gender_hetx"] ELSE xy
    IN  IF "coverage_sry" \in Range(hetx)
        THEN [hetx EXCEPT ![1] = "gender_sry"] ELSE hetx

\* lines 153-156
Abbreviate(values) ==
    IF values[1] = "male" THEN [values EXCEPT ![1] = "M"]
    ELSE IF values[1] = "female" THEN [values EXCEPT ![1] = "F"]
    ELSE values

\* dict(zip(headers, values)) with each value converted: a later column of the same
\* name replaces an earlier one
ZipFields(headers, values) ==
    LET n == IF Len(headers) < Len(values) THEN Len(headers) ELSE Len(values)
        last(k) == CHOOSE i \in 1..n : headers[i] = k /\ \A j \in 1..n : headers[j] = k => j <= i
    IN  [k \in {headers[i] : i \in 1..n} |-> FieldValue(values[last(k)])]

\* lines 138-172
sex_parse_file(lines) ==
    IF Len(lines) < 2 THEN [err |-> "", data |-> <<>>]
    ELSE LET headers == Columns2To6(StripLine(lines[1]))
             values == Columns2To6(StripLine(lines[2]))
         IN  IF values = <<>> THEN [err |-> "IndexError", data |-> <<>>]
             ELSE [err |-> "", data |-> ZipFields(RenameFirst(headers), Abbreviate(values))]

list_gender_methods == <<"gender_xy", "gender_hetx", "gender_sry">>

\* value == "text" for a field holding a float or a str
IsText(value, text) == value.t = "str" /\ value.v = text

\* lines 46-52: how many of the three calls equal the letter
RECURSIVE CountCalls(_, _, _)
CountCalls(rec, letter, i) ==
    IF i > Len(list_gender_methods) THEN 0
    ELSE (IF IsText(rec[list_gender_methods[i]], letter) THEN 1 ELSE 0)
         + CountCalls(rec, letter, i + 1)

SexVote_FemaleOnTie(rec) ==
    LET count_M == CountCalls(rec, "M", 1)
        count_F == CountCalls(rec, "F", 1)
    IN  IF count_M > count_F
        THEN [certainty |-> Ratio(count_M, 3), calc_gender |-> StrVal("M")]
        ELSE [certainty |-> Ratio(count_F, 3), calc_gender |-> StrVal("F")]

\* lines 46-60
SexVote(rec) ==
    LET count_M == CountCalls(rec, "M", 1)
        count_F == CountCalls(rec, "F", 1)
    IN  IF count_M >= count_F
        THEN [certainty |-> Ratio(count_M, 3), calc_gender |-> StrVal("M")]
        ELSE [certainty |-> Ratio(count_F, 3), calc_gender |-> StrVal("F")]

\* lines 45-60 over the samples in order: a sample without one of the three calls
\* raises KeyError and leaves the samples after it untouched
RECURSIVE VoteLoop(_, _)
VoteLoop(data, i) ==
    IF i > Len(data) THEN [err |-> "", data |-> data]
    ELSE IF ~(Range(list_gender_methods) \subseteq DOMAIN data[i][2])
    THEN [err |-> "KeyError", data |-> data]
    ELSE VoteLoop([data EXCEPT ![i] = <<data[i][1], SexVote(data[i][2]) @@ data[i][2]>>], i + 1)

\* BaseMultiqcModule.ignore_samples on an ordered mapping
IgnoreSamples(data, c) ==
    SelectSeq(data, LAMBDA p : p[1] \notin c.sample_names_ignore)

\* the files of the three methods
SexSamples == {<<"NA1">>, <<"NA2">>}

method_dict == <<<<"xy", "xy">>, <<"hetx", "hetx">>, <<"sry", "sry">>>>

GenderWords == {"male", "female", "unknown"}

XYHeader == <<"file", "gender", "reads_chry", "reads_chrx", "ratio_chry_chrx">>

HetxHeader == <<"file", "gender", "snps_usable", "hom_count", "het_count", "het_fraction">>

SryHeader == <<"file", "gender", "coverage_sry">>

SexFiles(method) ==
    CASE method = "xy" ->
            {<<<<"file", "gender">>>>}
            \cup {<<XYHeader, <<"a.bam", g, "100", "1000", "0.10">>>> : g \in GenderWords}
            \cup {<<XYHeader, <<"a.bam", "male", "", "1000", "">>>>,
                  <<XYHeader, <<"", "male", "100", "1000", "0.10">>>>}
      [] method = "hetx" ->
            {<<HetxHeader, <<"a.bam", g, "50", "40", "10", "0.20">>>> : g \in GenderWords}
            \cup {<<Append(HetxHeader, "reads_chry"),
                    <<"a.bam", "female", "50", "40", "10", "0.20", "100">>>>}
      [] method = "sry" ->
            {<<SryHeader, <<"a.bam", "male", "35.50">>>>,
             <<SryHeader, <<"a.bam", "female", "NaN">>>>,
             <<SryHeader, <<"a.bam", "unknown", "nan">>>>,
             <<SryHeader, <<"a.bam">>>>}

SexFile(content) == [kind |-> "gender", lines |-> content]

\* s_name.replace("_" + method, "")
RemoveExtension(name, ext) ==
    <<name[1]>> \o SelectSeq(Tail(name), LAMBDA part : part # ext)

\* lines 28-40: one file of the method whose loop is running
SexParseFile ==
    /\ module = "sample_gender" /\ pc \in {"xy", "hetx", "sry"}
    /\ \E s \in SexSamples, content \in SexFiles(pc) :
          LET fname == Append(s, pc)
              name == RemoveExtension(fname, pc)
              r == sex_parse_file(content)
              merged == DictSet(samplegender_data, name,
                                r.data @@ DictGet(samplegender_data, name, <<>>))
          IN  /\ fname \notin Range(found)
              /\ found' = Append(found, fname)
              /\ s_name' = name
              /\ f' = SexFile(content)
              /\ IF r.err # ""
                 THEN outcome' = r.err /\ pc' = "raised" /\ UNCHANGED samplegender_data
                 ELSE /\ samplegender_data' = IgnoreSamples(merged, config)
                      /\ UNCHANGED <<outcome, pc>>
    /\ UNCHANGED <<module, config, sections, data_file, cfg, line, cum_fraction_by_cov,
                   genstats_by_sample, general_stats, hotVars, msiVars, contigVars>>

\* line 26: the loop over method_dict moves on
SexNextMethod ==
    /\ module = "sample_gender" /\ pc \in {"xy", "hetx", "sry"}
    /\ pc' = CASE pc = "xy" -> "hetx" [] pc = "hetx" -> "sry" [] pc = "sry" -> "vote"
    /\ UNCHANGED <<module, outcome, config, found, sections, data_file, sexVars, notSex>>

\* lines 43-60
SexVoteAll ==
    /\ module = "sample_gender" /\ pc = "vote"
    /\ LET r == VoteLoop(samplegender_data, 1) IN
          /\ samplegender_data' = r.data
          /\ outcome' = IF r.err = "" THEN outcome ELSE r.err
          /\ pc' = IF r.err = "" THEN "report" ELSE "raised"
    /\ UNCHANGED <<module, config, found, sections, data_file, notSex>>

\* lines 62-136
SexReport ==
    /\ module = "sample_gender" /\ pc = "report"
    /\ data_file' = Some(samplegender_data)
    /\ sections' = sections + 1
    /\ outcome' = "ok"
    /\ pc' = "done"
    /\ UNCHANGED <<module, config, found, sexVars, notSex>>

InitSex ==
    /\ module = "sample_gender" /\ pc = "xy" /\ outcome = "running"
    /\ config \in {Config([kind |-> "unset"], i) : i \in {{}, {<<"NA2">>}}}
    /\ cfg = NoCfg
    /\ found = <<>>
    /\ f = Exhausted
    /\ s_name = <<>>
    /\ line = NoLine
    /\ cum_fraction_by_cov = <<>>
    /\ genstats_by_sample = <<>>
    /\ general_stats = None
    /\ sections = 0
    /\ data_file = None
    /\ samplegender_data = <<>>
    /\ MSH2_varcount_data = <<>>
    /\ MsiIdle
    /\ ContigIdle

NextSex == SexParseFile \/ SexNextMethod \/ SexVoteAll \/ SexReport

SpecSex == InitSex /\ [][NextSex]_vars

Max(a, b) == IF a >= b THEN a ELSE b

Calls(rec, letter) ==
    Cardinality({m \in Range(list_gender_methods) : IsText(rec[m], letter)})

HoldsThreeCalls(rec) == Range(list_gender_methods) \subseteq DOMAIN rec

\* C3: every sample that was aggregated holds the three calls and has
\* certainty = max(#M, #F) / 3 with calc_gender "M" when #M >= #F and "F" otherwise;
\* once the aggregation has finished every sample was aggregated; and the
\* aggregation raises only for a sample that lacks one of the three calls, never
\* for calls that are neither M nor F.
C3_SexVoteAggregation ==
    /\ \A i \in 1..Len(samplegender_data) :
          LET rec == samplegender_data[i][2] IN
             /\ (module = "sample_gender" /\ pc \in {"report", "done"})
                   => "certainty" \in DOMAIN rec
             /\ "certainty" \in DOMAIN rec =>
                   /\ HoldsThreeCalls(rec)
                   /\ rec["certainty"] = Ratio(Max(Calls(rec, "M"), Calls(rec, "F")), 3)
                   /\ rec["calc_gender"] =
                         StrVal(IF Calls(rec, "M") >= Calls(rec, "F") THEN "M" ELSE "F")
    /\ (module = "sample_gender" /\ outcome = "KeyError") =>
          \E i \in 1..Len(samplegender_data) : ~HoldsThreeCalls(samplegender_data[i][2])

\* a finished run with one sample called M, M, F and one whose three calls are all
\* "unknown"
C3_Witness ==
    /\ module = "sample_gender" /\ pc = "done" /\ outcome = "ok"
    /\ \E i \in 1..Len(samplegender_data) :
          LET rec == samplegender_data[i][2] IN
             /\ IsText(rec["gender_xy"], "M") /\ IsText(rec["gender_hetx"], "M")
             /\ IsText(rec["gender_sry"], "F")
             /\ rec["certainty"] = Ratio(2, 3) /\ rec["calc_gender"] = StrVal("M")
    /\ \E i \in 1..Len(samplegender_data) :
          LET rec == samplegender_data[i][2] IN
             /\ \A m \in Range(list_gender_methods) : IsText(rec[m], "unknown")
             /\ rec["certainty"] = Ratio(0, 3) /\ rec["calc_gender"] = StrVal("M")

(***************************************************************************)
(* MSH2_hotspot_varcount.py: the hotspot count module.  A file is a        *)
(* sequence of lines and a line the sequence of its space-separated        *)
(* fields; a frequency is a number of hundredths of a percent point.       *)
(***************************************************************************)
wt == "MSH2_c.942+3_wt"

\* the count fields int() accepts, with their values
CountTable ==
    ("0" :> 0) @@ ("1" :> 1) @@ ("2" :> 2) @@ ("20" :> 20) @@ ("980" :> 980)
    @@ ("1880" :> 1880)

\* round(num / den * 100, 2) in hundredths: the nearest hundredth, the even one
\* when two are equally near
RoundPercent(num, den) ==
    LET q == (num * 10000) \div den
        r == (num * 10000) % den
    IN  IF 2 * r < den THEN q
        ELSE IF 2 * r > den THEN q + 1
        ELSE IF q % 2 = 0 THEN q ELSE q + 1

\* f"{freq}": the shortest decimal text of a float with at most two decimals
FloatRepr(h) ==
    ToString(h \div 100) \o "." \o ToString((h % 100) \div 10)
    \o (IF h % 10 = 0 THEN "" ELSE ToString(h % 10))

FreqText_StrictlyAbove(h, counts, threshold) ==
    FloatRepr(h) \o "(" \o counts \o ")" \o (IF h > threshold THEN " - Sangeren!" ELSE "")

\* lines 118-121
FreqText(h, counts, threshold) ==
    FloatRepr(h) \o "(" \o counts \o ")" \o (IF h >= threshold THEN " - Sangeren!" ELSE "")

\* lines 110-111: dict(zip(headers, values)) as the pairs in order of first appearance
RECURSIVE ZipPairs(_, _, _, _)
ZipPairs(headers, values, i, acc) ==
    IF i > Len(headers) \/ i > Len(values) THEN acc
    ELSE ZipPairs(headers, values, i + 1, DictSet(acc, headers[i], values[i]))

\* lines 114-123 from the i-th column on
RECURSIVE FreqLoop(_, _, _)
FreqLoop(parsed_data, i, threshold) ==
    IF i > Len(parsed_data) THEN [err |-> "", data |-> parsed_data]
    ELSE LET variant == parsed_data[i][1]
             counts == parsed_data[i][2]
         IN  IF variant = wt THEN FreqLoop(parsed_data, i + 1, threshold)
             ELSE IF counts \notin DOMAIN CountTable
             THEN [err |-> "ValueError", data |-> parsed_data]
             ELSE IF wt \notin DictKeys(parsed_data)
             THEN [err |-> "KeyError", data |-> parsed_data]
             ELSE LET wild == DictGet(parsed_data, wt, "") IN
                  IF wild \notin DOMAIN CountTable
                  THEN [err |-> "ValueError", data |-> parsed_data]
                  ELSE IF CountTable[wild] + CountTable[counts] = 0
                  THEN [err |-> "ZeroDivisionError", data |-> parsed_data]
                  ELSE FreqLoop(
                          DictSet(parsed_data, variant,
                                  FreqText(RoundPercent(CountTable[counts],
                                                        CountTable[wild] + CountTable[counts]),
                                           counts, threshold)),
                          i + 1, threshold)

\* the mapping an ordered dict stands for
AsRecord(d) == [k \in DictKeys(d) |-> DictGet(d, k, "")]

hot_parse_file_FourFields(lines, threshold) ==
    IF Len(lines) < 3 THEN [err |-> "", data |-> <<>>]
    ELSE IF Len(lines) < 4 THEN [err |-> "IndexError", data |-> <<>>]
    ELSE LET names == StripLine(lines[3])
             values == StripLine(lines[4])
             r == FreqLoop(ZipPairs(SubSeq(names, 2, Min(Len(names), 5)),
                                    SubSeq(values, 2, Min(Len(values), 5)), 1, <<>>),
                           1, threshold)
         IN  [err |-> r.err, data |-> AsRecord(r.data)]

\* lines 96-125; a line is the sequence of its fields between single spaces
hot_parse_file(lines, threshold) ==
    IF Len(lines) < 3 THEN [err |-> "", data |-> <<>>]
    ELSE IF Len(lines) < 4 THEN [err |-> "IndexError", data |-> <<>>]
    ELSE LET r == FreqLoop(ZipPairs(Columns2To6(StripLine(lines[3])),
                                    Columns2To6(StripLine(lines[4])), 1, <<>>),
                           1, threshold)
         IN  [err |-> r.err, data |-> AsRecord(r.data)]

Variant == "MSH2_c.942+3A>T"

Preamble == <<<<"#", "counts">>, <<"#", "v1">>>>

\* a names line of 7 fields
WideHeader ==
    <<"sample", wt, Variant, "MSH2_c.942+3A>G", "MSH2_c.942+3A>C", "MSH2_c.942+3del",
      "MSH2_c.942+3ins">>

HotFiles ==
    {Preamble, Append(Preamble, <<"sample", wt, Variant>>)}
    \cup {Preamble \o <<<<"sample", wt, Variant>>, <<"s", w, c>>>> :
             w \in {"980", "0", "2", "1880"}, c \in {"20", "0", "1", "abc"}}
    \cup {Preamble \o <<<<"sample", Variant, wt>>, <<"s", c, w>>>> :
             c \in {"980", "1"}, w \in {"20", "abc"}}
    \cup {Preamble \o <<<<"sample", Variant>>, <<"s", "20">>>>,
          Preamble \o <<<<"sample">>, <<"s">>>>,
          Preamble \o <<<<"", "sample", wt, Variant>>, <<"", "s", "980", "20">>>>,
          Preamble \o <<<<"sample", wt, Variant, "", "MSH2_c.942+3A>G">>,
                        <<"s", "980", "20", "", "1">>>>,
          Preamble \o <<WideHeader, <<"s", "980", "20", "1", "0", "2", "1880">>>>,
          Preamble \o <<WideHeader, <<"s", "980", "20", "1">>>>}

\* sanger_threshold values: 1.5, 2.0 and 50.0
SangerThresholds == {150, 200, 5000}

HotFile(content) == [kind |-> "hotspot", lines |-> content]

\* lines 24-34: one counts file
HotParseFile ==
    /\ module = "MSH2_hotspot_varcount" /\ pc = "files"
    /\ \E s \in {<<"S1">>, <<"S2">>}, content \in HotFiles :
          LET r == hot_parse_file(content,
                                  config["MSH2_hotspot_varcount_config"].sanger_threshold)
              merged == DictSet(MSH2_varcount_data, s,
                                r.data @@ DictGet(MSH2_varcount_data, s, <<>>))
          IN  /\ s \notin Range(found)
              /\ found' = Append(found, s)
              /\ s_name' = s
              /\ f' = HotFile(content)
              /\ IF r.err # ""
                 THEN outcome' = r.err /\ pc' = "raised" /\ UNCHANGED MSH2_varcount_data
                 ELSE /\ MSH2_varcount_data' = IgnoreSamples(merged, config)
                      /\ UNCHANGED <<outcome, pc>>
    /\ UNCHANGED <<module, config, cfg, line, cum_fraction_by_cov, genstats_by_sample,
                   general_stats, sections, data_file, sexVars, msiVars, contigVars>>

\* lines 36-95: the data file and the table are written whatever was found
HotReport ==
    /\ module = "MSH2_hotspot_varcount" /\ pc = "files"
    /\ data_file' = Some(MSH2_varcount_data)
    /\ sections' = sections + 1
    /\ outcome' = "ok"
    /\ pc' = "done"
    /\ UNCHANGED <<module, config, found, hotVars, notHot>>

InitHot ==
    /\ module = "MSH2_hotspot_varcount" /\ pc = "files" /\ outcome = "running"
    /\ config \in {("MSH2_hotspot_varcount_config" :> [sanger_threshold |-> t])
                   @@ Config([kind |-> "unset"], i) :
                      t \in SangerThresholds, i \in {{}, {<<"S1">>}}}
    /\ cfg = NoCfg
    /\ found = <<>>
    /\ f = Exhausted
    /\ s_name = <<>>
    /\ line = NoLine
    /\ cum_fraction_by_cov = <<>>
    /\ genstats_by_sample = <<>>
    /\ general_stats = None
    /\ sections = 0
    /\ data_file = None
    /\ samplegender_data = <<>>
    /\ MSH2_varcount_data = <<>>
    /\ MsiIdle
    /\ ContigIdle

NextHot == HotParseFile \/ HotReport

SpecHot == InitHot /\ [][NextHot]_vars

\* h is a hundredth nearest to num / den * 100
Nearest(h, num, den) ==
    LET diff == num * 10000 - h * den
    IN  2 * (IF diff < 0 THEN -diff ELSE diff) <= den

\* C4: after a counts file was parsed and stored, every variant column other than
\* the wild-type column holds "<freq>(<c>)" with freq = c / (wt + c) * 100 rounded
\* to two decimals, followed by " - Sangeren!" exactly when freq >= the configured
\* sanger_threshold, and the wild-type column holds its raw count.
C4_HotspotFrequencyFormat ==
    (/\ module = "MSH2_hotspot_varcount" /\ outcome \in {"running", "ok"}
     /\ s_name \in DictKeys(MSH2_varcount_data) /\ Len(f.lines) >= 4)
    => LET rec == DictGet(MSH2_varcount_data, s_name, <<>>)
           headers == Columns2To6(StripLine(f.lines[3]))
           values == Columns2To6(StripLine(f.lines[4]))
           threshold == config["MSH2_hotspot_varcount_config"].sanger_threshold
       IN  \A i \in DOMAIN headers \cap DOMAIN values :
              IF headers[i] = wt THEN rec[wt] = values[i]
              ELSE \E j \in DOMAIN headers \cap DOMAIN values :
                     /\ headers[j] = wt
                     /\ LET c == CountTable[values[i]]
                            total == CountTable[values[j]] + c
                        IN  \E h \in {(c * 10000) \div total, (c * 10000) \div total + 1} :
                               /\ Nearest(h, c, total)
                               /\ rec[headers[i]] =
                                     FloatRepr(h) \o "(" \o values[i] \o ")"
                                     \o (IF h >= threshold THEN " - Sangeren!" ELSE "")

\* wt = 980, c = 20 and threshold 1.5 give "2.0(20) - Sangeren!"
C4_Witness ==
    /\ module = "MSH2_hotspot_varcount" /\ outcome = "running"
    /\ config["MSH2_hotspot_varcount_config"].sanger_threshold = 150
    /\ f = HotFile(Preamble \o <<<<"sample", wt, Variant>>, <<"s", "980", "20">>>>)
    /\ s_name \in DictKeys(MSH2_varcount_data)
    /\ DictGet(MSH2_varcount_data, s_name, <<>>)[Variant] = "2.0(20) - Sangeren!"
    /\ DictGet(MSH2_varcount_data, s_name, <<>>)[wt] = "980"

\* C8: a module that found no input file ends with ModuleNoSamplesFound, without a
\* section and without a data file.
C8_NoInputRaisesNoSamples ==
    (found = <<>> /\ pc \in {"done", "raised"})
    => (outcome = "ModuleNoSamplesFound" /\ sections = 0 /\ data_file = None)

(***************************************************************************)
(* msi_sensor_pro.py: the MSI module.  A file is its lines and a line the  *)
(* sequence of its tab-separated columns; p-values, row thresholds and     *)
(* percentages are hundredths.                                             *)
(***************************************************************************)
\* the texts float() accepts in the MSI files, with their values
MsiNumberTable ==
    ("0.00" :> 0) @@ ("0.40" :> 40) @@ ("0.50" :> 50) @@ ("0.60" :> 60)
    @@ ("12.50" :> 1250) @@ ("30.00" :> 3000)

\* the texts int() accepts in the MSI files, with their values
MsiCountTable ==
    ("0" :> 0) @@ ("5" :> 5) @@ ("20" :> 20) @@ ("21" :> 21)
    @@ ("299" :> 299) @@ ("300" :> 300)

\* the three thresholds the constructor reads, each set or not
MsiThresholdNames ==
    <<"msi_sensor_pro_coverage_threshold", "msi_sensor_pro_min_sites", "msi_high_threshold">>

MsiThresholdValues ==
    ("msi_sensor_pro_coverage_threshold" :> 300) @@ ("msi_sensor_pro_min_sites" :> 20)
    @@ ("msi_high_threshold" :> 3000)

MsiConfig(set) ==
    [k \in set |-> MsiThresholdValues[k]] @@ Config([kind |-> "unset"], {})

\* lines 22-24: getattr(config, name) without a default
MsiLoadThresholds ==
    /\ module = "msi_sensor_pro" /\ pc = "init"
    /\ IF Range(MsiThresholdNames) \subseteq DOMAIN config
       THEN /\ thresholds' = Some([coverage_threshold |-> config["msi_sensor_pro_coverage_threshold"],
                                   min_sites_threshold |-> config["msi_sensor_pro_min_sites"],
                                   msi_high_threshold |-> config["msi_high_threshold"]])
            /\ pc' = "summary"
            /\ UNCHANGED outcome
       ELSE /\ outcome' = "AttributeError" /\ pc' = "raised"
            /\ UNCHANGED thresholds
    /\ UNCHANGED <<module, config, found, sections, data_file, data_summary, sample_data,
                   all_loci, msisensorpro_data, warnings, notMsi>>

MsiSamples == {<<"S1">>, <<"S2">>}

SummaryHeader == <<"Total_Number_of_Sites", "Number_of_Unstable_Sites", "%">>

SummaryFiles ==
    {<<>>,
     <<SummaryHeader>>,
     <<SummaryHeader, <<"21", "5">>>>,
     <<SummaryHeader, <<"20", "5", "30.00">>>>,
     <<SummaryHeader, <<"21", "0", "0.00">>>>,
     <<SummaryHeader, <<"21", "5", "12.50">>>>,
     <<SummaryHeader, <<"21", "5", "12.50">>, <<"21", "5", "30.00">>>>}

\* lines 159-166 from the i-th line on: the last data line wins
RECURSIVE SummaryLines(_, _, _, _)
SummaryLines(lines, header, i, acc) ==
    IF i > Len(lines) THEN [err |-> "", rec |-> acc]
    ELSE IF lines[i] = header THEN SummaryLines(lines, header, i + 1, acc)
    ELSE IF Len(lines[i]) # 3 THEN [err |-> "ValueError", rec |-> acc]
    ELSE IF lines[i][1] \notin DOMAIN MsiCountTable \/ lines[i][2] \notin DOMAIN MsiCountTable
            \/ lines[i][3] \notin DOMAIN MsiNumberTable
    THEN [err |-> "ValueError", rec |-> acc]
    ELSE SummaryLines(lines, header, i + 1,
                      Some([num_sites |-> MsiCountTable[lines[i][1]],
                            num_unstable_sites |-> MsiCountTable[lines[i][2]],
                            perc |-> MsiNumberTable[lines[i][3]]]))

\* lines 155-167: one summary file
MsiSummaryFile ==
    /\ module = "msi_sensor_pro" /\ pc = "summary"
    /\ \E s \in MsiSamples, lines \in SummaryFiles :
          /\ Append(s, "summary") \notin Range(found)
          /\ found' = Append(found, Append(s, "summary"))
          /\ IF lines = <<>>
             THEN outcome' = "IndexError" /\ pc' = "raised" /\ UNCHANGED data_summary
             ELSE LET r == SummaryLines(lines, lines[1], 1, None) IN
                  /\ data_summary' = IF r.rec = None THEN data_summary
                                     ELSE DictSet(data_summary, s, r.rec[1])
                  /\ outcome' = IF r.err = "" THEN outcome ELSE r.err
                  /\ pc' = IF r.err = "" THEN pc ELSE "raised"
    /\ UNCHANGED <<module, config, sections, data_file, thresholds, sample_data,
                   all_loci, msisensorpro_data, warnings, notMsi>>

\* line 168: parse_summary returns, parse_all starts
MsiSummaryDone ==
    /\ module = "msi_sensor_pro" /\ pc = "summary"
    /\ pc' = "all"
    /\ UNCHANGED <<module, outcome, config, found, sections, data_file, msiVars, notMsi>>

\* the data rows a per-locus file can hold, after strip() and split("\t")
MaxRows == 2

GoodRows ==
    {<<"chr1", "100", "A", "T", "5", "AC", r[1], "0.1", r[2], "0.50">> :
        r \in {<<"0.60", "300">>, <<"0.50", "300">>, <<"0.40", "299">>}}
    \cup
    {<<"chr1", "200", "A", "T", "5", "AC", r[1], "0.1", r[2], "0.50">> :
        r \in {<<"0.60", "299">>, <<"0.40", "300">>}}

ShortRows ==
    {<<"">>,
     <<"chr1", "100", "A", "T", "5", "AC", "0.60", "0.1", "300">>}

BadRows ==
    {<<"chr1", "100", "A", "T", "5", "AC", "x", "0.1", "300", "0.50">>,
     <<"chr1", "100", "A", "T", "5", "AC", "0.60", "0.1", "300.5", "0.50">>}

AllRows == GoodRows \cup ShortRows \cup BadRows

locus_id(parts) == parts[1] \o ":" \o parts[2]

msi_status_CoverageFirst(parts, coverage_threshold) ==
    LET pro_p == MsiNumberTable[parts[7]]
        coverage == MsiCountTable[parts[9]]
        threshold == MsiNumberTable[parts[10]]
    IN  IF coverage < coverage_threshold THEN "Low-coverage (" \o ToString(coverage) \o ")"
        ELSE IF pro_p > threshold THEN "Unstable (" \o ToString(coverage) \o ")"
        ELSE "Stable (" \o ToString(coverage) \o ")"

\* lines 190-200
msi_status(parts, coverage_threshold) ==
    LET pro_p == MsiNumberTable[parts[7]]
        coverage == MsiCountTable[parts[9]]
        threshold == MsiNumberTable[parts[10]]
    IN  IF pro_p > threshold THEN "Unstable (" \o ToString(coverage) \o ")"
        ELSE IF coverage < coverage_threshold THEN "Low-coverage (" \o ToString(coverage) \o ")"
        ELSE "Stable (" \o ToString(coverage) \o ")"

Skipping(name) == <<"Skipping line in", name, "due to insufficient columns">>

MinColumns == 10

\* lines 177-179: the next per-locus file is opened; lines[1:] are its data rows
MsiAllOpen ==
    /\ module = "msi_sensor_pro" /\ pc = "all"
    /\ \E s \in MsiSamples, n \in 0..MaxRows :
          /\ Append(s, "all") \notin Range(found)
          /\ found' = Append(found, Append(s, "all"))
          /\ s_name' = s
          /\ f' = [kind |-> "rows", left |-> n]
    /\ pc' = "row"
    /\ line' = NoLine
    /\ UNCHANGED <<module, outcome, config, sections, data_file, msiVars,
                   cfg, cum_fraction_by_cov, genstats_by_sample, general_stats,
                   sexVars, hotVars, contigVars>>

MsiRow_AbortFile(parts) ==
    IF Len(parts) < MinColumns
    THEN /\ warnings' = Append(warnings, Skipping(s_name))
         /\ f' = [f EXCEPT !.left = 0]
         /\ UNCHANGED <<sample_data, all_loci, outcome, pc>>
    ELSE IF parts[7] \notin DOMAIN MsiNumberTable \/ parts[9] \notin DOMAIN MsiCountTable
            \/ parts[10] \notin DOMAIN MsiNumberTable
    THEN /\ outcome' = "ValueError" /\ pc' = "raised"
         /\ all_loci' = all_loci \cup {locus_id(parts)}
         /\ f' = [f EXCEPT !.left = @ - 1]
         /\ UNCHANGED <<sample_data, warnings>>
    ELSE /\ all_loci' = all_loci \cup {locus_id(parts)}
         /\ sample_data' =
               DictSet(sample_data, s_name,
                       DictSet(DictGet(sample_data, s_name, <<>>), locus_id(parts),
                               msi_status(parts, thresholds[1].coverage_threshold)))
         /\ f' = [f EXCEPT !.left = @ - 1]
         /\ UNCHANGED <<warnings, outcome, pc>>

\* lines 182-202: the body of 'for line in lines[1:]' on the row parts
MsiRow(parts) ==
    IF Len(parts) < MinColumns
    THEN /\ warnings' = Append(warnings, Skipping(s_name))
         /\ f' = [f EXCEPT !.left = @ - 1]
         /\ UNCHANGED <<sample_data, all_loci, outcome, pc>>
    ELSE IF parts[7] \notin DOMAIN MsiNumberTable \/ parts[9] \notin DOMAIN MsiCountTable
            \/ parts[10] \notin DOMAIN MsiNumberTable
    THEN /\ outcome' = "ValueError" /\ pc' = "raised"
         /\ all_loci' = all_loci \cup {locus_id(parts)}
         /\ f' = [f EXCEPT !.left = @ - 1]
         /\ UNCHANGED <<sample_data, warnings>>
    ELSE /\ all_loci' = all_loci \cup {locus_id(parts)}
         /\ sample_data' =
               DictSet(sample_data, s_name,
                       DictSet(DictGet(sample_data, s_name, <<>>), locus_id(parts),
                               msi_status(parts, thresholds[1].coverage_threshold)))
         /\ f' = [f EXCEPT !.left = @ - 1]
         /\ UNCHANGED <<warnings, outcome, pc>>

\* line 181: one data row
MsiAllRow ==
    /\ module = "msi_sensor_pro" /\ pc = "row" /\ f.left > 0
    /\ \E parts \in AllRows :
          /\ line' = [cols |-> parts, nl |-> TRUE]
          /\ MsiRow(parts)
    /\ UNCHANGED <<module, config, found, sections, data_file, thresholds, data_summary,
                   msisensorpro_data, s_name,
                   cfg, cum_fraction_by_cov, genstats_by_sample, general_stats,
                   sexVars, hotVars, contigVars>>

\* line 181: the rows of the file are exhausted
MsiAllClose ==
    /\ module = "msi_sensor_pro" /\ pc = "row" /\ f.left = 0
    /\ pc' = "all"
    /\ line' = NoLine
    /\ UNCHANGED <<module, outcome, config, found, sections, data_file, msiVars,
                   cfg, f, s_name, cum_fraction_by_cov, genstats_by_sample, general_stats,
                   sexVars, hotVars, contigVars>>

FillMissing_NoFill(locus_status, loci) ==
    [l \in DictKeys(locus_status) |-> DictGet(locus_status, l, "")]

\* lines 204-207: a locus a sample did not report is filled in
FillMissing(locus_status, loci) ==
    LET missing == loci \ DictKeys(locus_status)
    IN  [l \in DictKeys(locus_status) \cup missing |->
            IF l \in missing THEN "Low-coverage (0)" ELSE DictGet(locus_status, l, "")]

\* lines 204-209: parse_all returns
MsiAllFill ==
    /\ module = "msi_sensor_pro" /\ pc = "all"
    /\ sample_data' = [i \in 1..Len(sample_data) |->
                          <<sample_data[i][1], FillMissing(sample_data[i][2], all_loci)>>]
    /\ pc' = "report"
    /\ UNCHANGED <<module, outcome, config, found, sections, data_file, thresholds,
                   data_summary, all_loci, msisensorpro_data, warnings, notMsi>>

sample_entry_PercentageFirst(d, t) ==
    LET msi == IF d.perc >= t.msi_high_threshold THEN "MSI-high"
               ELSE IF d.num_sites <= t.min_sites_threshold THEN "Low-coverage"
               ELSE "MSS"
    IN  [c \in {"MSS", "MSI-high", "Low-coverage"} |-> IF c = msi THEN d.perc ELSE 0]

\* lines 128-143: the bargraph entry of one sample
sample_entry(d, t) ==
    LET msi == IF d.num_sites <= t.min_sites_threshold THEN "Low-coverage"
               ELSE IF d.perc >= t.msi_high_threshold THEN "MSI-high"
               ELSE "MSS"
    IN  [c \in {"MSS", "MSI-high", "Low-coverage"} |-> IF c = msi THEN d.perc ELSE 0]

\* lines 119-148
prepare_msisensorpro_data(data, t) ==
    LET entries == [i \in 1..Len(data) |-> <<data[i][1], sample_entry(data[i][2], t)>>]
    IN  [data |-> entries,
         all_zero |-> \A i \in 1..Len(entries) :
                         \A c \in DOMAIN entries[i][2] : entries[i][2][c] = 0]

\* lines 29-117: the tables, and the bargraph unless every value is zero
MsiReport ==
    /\ module = "msi_sensor_pro" /\ pc = "report"
    /\ LET r == prepare_msisensorpro_data(data_summary, thresholds[1]) IN
          /\ msisensorpro_data' = Some(r)
          /\ sections' = sections + 2 + (IF r.all_zero THEN 0 ELSE 1)
    /\ outcome' = "ok"
    /\ pc' = "done"
    /\ UNCHANGED <<module, config, found, data_file, thresholds, data_summary, sample_data,
                   all_loci, warnings, notMsi>>

InitMsi ==
    /\ module = "msi_sensor_pro" /\ pc = "init" /\ outcome = "running"
    /\ config \in {MsiConfig(Range(MsiThresholdNames) \ missing) :
                      missing \in {{}, {"msi_sensor_pro_coverage_threshold"},
                                   {"msi_sensor_pro_min_sites"}, {"msi_high_threshold"},
                                   Range(MsiThresholdNames)}}
    /\ cfg = NoCfg
    /\ found = <<>>
    /\ f = Exhausted
    /\ s_name = <<>>
    /\ line = NoLine
    /\ cum_fraction_by_cov = <<>>
    /\ genstats_by_sample = <<>>
    /\ general_stats = None
    /\ sections = 0
    /\ data_file = None
    /\ samplegender_data = <<>>
    /\ MSH2_varcount_data = <<>>
    /\ MsiIdle
    /\ ContigIdle

NextMsi ==
    \/ MsiLoadThresholds \/ MsiSummaryFile \/ MsiSummaryDone
    \/ MsiAllOpen \/ MsiAllRow \/ MsiAllClose \/ MsiAllFill \/ MsiReport

SpecMsi == InitMsi /\ [][NextMsi]_vars

\* the step reads one data row of a per-locus file
ReadsRow == module = "msi_sensor_pro" /\ pc = "row" /\ f'.left < f.left

\* C11: a data row with fewer than 10 columns is skipped with a warning naming the
\* sample: it adds no locus and no status, raises nothing, and the loop goes on with
\* the next row; every well-formed row, whatever was skipped before it in this file
\* or an earlier one, is classified and recorded under its locus for its sample.
C11_ShortRowSkipped ==
    [][ReadsRow =>
          LET parts == line'.cols IN
             /\ Len(parts) < 10 =>
                   /\ warnings' = Append(warnings, Skipping(s_name))
                   /\ sample_data' = sample_data /\ all_loci' = all_loci
                   /\ outcome' = outcome /\ pc' = "row"
                   /\ f'.left = f.left - 1
             /\ parts \in GoodRows =>
                   /\ warnings' = warnings
                   /\ locus_id(parts) \in all_loci'
                   /\ DictGet(DictGet(sample_data', s_name, <<>>), locus_id(parts), "")
                         = msi_status(parts, thresholds[1].coverage_threshold)
                   /\ \A i \in 1..Len(sample_data) :
                         sample_data[i][1] # s_name => sample_data'[i] = sample_data[i]]_vars

\* the second file's first row was short and its second row was recorded, after a
\* first file that also lost a row
C11_Witness ==
    /\ module = "msi_sensor_pro" /\ pc = "row" /\ f.left = 0
    /\ line.cols \in GoodRows
    /\ warnings = <<Skipping(<<"S1">>), Skipping(<<"S2">>)>>
    /\ s_name = <<"S2">>
    /\ DictKeys(sample_data) = {<<"S1">>, <<"S2">>}
    /\ locus_id(line.cols) \in DictKeys(DictGet(sample_data, s_name, <<>>))


\* the sex prediction module has just stored the fields of the file in f for s_name
SexFileStored ==
    /\ module = "sample_gender" /\ f.kind = "gender" /\ outcome \in {"running", "ok"}
    /\ Len(f.lines) >= 2
    /\ s_name \in DictKeys(samplegender_data)

\* C12: every consumed field of a sex prediction file is stored as a float when its
\* text is a number, as the string "N/A" when its text is a NaN, and as the text
\* itself otherwise; no field makes parse_file raise ValueError.
C12_FieldsFloatOrText ==
    /\ module = "sample_gender" => outcome # "ValueError"
    /\ SexFileStored =>
          LET rec == DictGet(samplegender_data, s_name, <<>>)
              headers == RenameFirst(Columns2To6(StripLine(f.lines[1])))
              values == Abbreviate(Columns2To6(StripLine(f.lines[2])))
          IN  \A i \in 1..Min(Len(headers), Len(values)) :
                 LET stored == rec[headers[i]] IN
                    IF values[i] \in DOMAIN NumberTable
                    THEN stored.t = "float" /\ stored.v = NumberTable[values[i]]
                    ELSE IF values[i] \in NaNTexts
                    THEN stored.t = "str" /\ stored.v = "N/A"
                    ELSE stored.t = "str" /\ stored.v = values[i]

\* a sample whose SRY file held a NaN coverage, after its XY file held an empty field
\* and a number
C12_Witness ==
    /\ SexFileStored
    /\ f.lines = <<SryHeader, <<"a.bam", "female", "NaN">>>>
    /\ LET rec == DictGet(samplegender_data, s_name, <<>>) IN
          /\ IsText(rec["coverage_sry"], "N/A")
          /\ IsText(rec["gender_sry"], "F")
          /\ "reads_chry" \in DOMAIN rec
          /\ IsText(rec["reads_chry"], "")
          /\ rec["reads_chrx"] = FloatVal(100000)

\* the default the comment on line 21 of msi_sensor_pro.py announces
MsiDefaultThreshold == 300

ThresholdOf(name) ==
    CASE name = "msi_sensor_pro_coverage_threshold" -> thresholds[1].coverage_threshold
      [] name = "msi_sensor_pro_min_sites" -> thresholds[1].min_sites_threshold
      [] name = "msi_high_threshold" -> thresholds[1].msi_high_threshold

\* C13: once the MSI constructor has read its thresholds, it holds a value for each
\* of them without having raised, and a threshold that the configuration does not
\* set has the default 300.
C13_AbsentConfigFallsBack ==
    (module = "msi_sensor_pro" /\ pc # "init") =>
       /\ outcome # "AttributeError"
       /\ thresholds # None
       /\ \A name \in Range(MsiThresholdNames) \ DOMAIN config :
             ThresholdOf(name) = MsiDefaultThreshold

(***************************************************************************)
(* The per-contig coverage the distribution files hold: the sum of the     *)
(* fractions of a contig's rows, per sample (the last file of a sample     *)
(* counts) and over all samples.                                           *)
(***************************************************************************)
IsContigRow(l) ==
    Len(l.cols) = 3 /\ l.cols[1] # "total" /\ IsFloatLiteral(l.cols[3])

RECURSIVE FileContigSum(_, _, _)
FileContigSum(content, contig, i) ==
    IF i > Len(content) THEN 0
    ELSE (IF IsContigRow(content[i]) /\ content[i].cols[1] = contig
          THEN FloatOf(content[i].cols[3]) ELSE 0)
         + FileContigSum(content, contig, i + 1)

InputSamples == {dist_files[i][1] : i \in 1..Len(dist_files)}

LastFileOf(s) ==
    dist_files[CHOOSE i \in 1..Len(dist_files) :
                  dist_files[i][1] = s /\ \A j \in 1..Len(dist_files) :
                                             dist_files[j][1] = s => j <= i][2]

InputContigs ==
    UNION {{LastFileOf(s)[i].cols[1] :
               i \in {j \in 1..Len(LastFileOf(s)) : IsContigRow(LastFileOf(s)[j])}} :
           s \in InputSamples}

SampleHas(s, contig) ==
    \E i \in 1..Len(LastFileOf(s)) :
       IsContigRow(LastFileOf(s)[i]) /\ LastFileOf(s)[i].cols[1] = contig

SampleContigSum(s, contig) == FileContigSum(LastFileOf(s), contig, 1)

RECURSIVE CoverageOver(_, _)
CoverageOver(S, contig) ==
    IF S = {} THEN 0
    ELSE LET s == CHOOSE x \in S : TRUE
         IN  SampleContigSum(s, contig) + CoverageOver(S \ {s}, contig)

InputCoverage(contig) == CoverageOver(InputSamples, contig)

RECURSIVE TotalOver(_)
TotalOver(C) ==
    IF C = {} THEN 0
    ELSE LET contig == CHOOSE x \in C : TRUE
         IN  InputCoverage(contig) + TotalOver(C \ {contig})

InputTotal == TotalOver(InputContigs)

\* the contig's summed coverage is strictly above cutoff * total
AboveCutoff(contig) ==
    InputCoverage(contig) * 100 > cfg.perchrom_fraction_cutoff.v * InputTotal

CutoffDone == module = "coverage" /\ pc \in {"check", "buttons", "genstats", "done"}

SeriesOf(s) == DictGet(bases_fraction_sum_per_contig_per_sample, s, <<>>)

\* C14: after the cutoff step, a contig of the input is in the passing set exactly
\* when its coverage summed across all samples is strictly greater than c * T.
C14_PassingIffAboveCutoff ==
    CutoffDone =>
       \A contig \in InputContigs :
          (contig \in passing_contigs) <=> AboveCutoff(contig)

\* C15: after the cutoff step, a contig that failed the cutoff is in no sample's
\* per-contig series and a contig that passed is in the series of every sample whose
\* file had rows for it.
C15_DecisionPerContig ==
    CutoffDone =>
       \A contig \in InputContigs, s \in InputSamples :
          IF AboveCutoff(contig)
          THEN SampleHas(s, contig) => contig \in DictKeys(SeriesOf(s))
          ELSE contig \notin DictKeys(SeriesOf(s))

\* C16: after the cutoff step, every sample has, for every contig of its file whose
\* uncorrected summed coverage passed the cutoff, a per-contig value equal to the sum of
\* the contig's fractions in the sample's file minus 1.
C16_ValueIsSumMinusOne ==
    CutoffDone =>
       \A contig \in InputContigs, s \in InputSamples :
          (SampleHas(s, contig) /\ AboveCutoff(contig)) =>
             /\ contig \in DictKeys(SeriesOf(s))
             /\ DictGet(SeriesOf(s), contig, 0) = SampleContigSum(s, contig) - 100

\* two stored fields are the same kind of value with the same content
SameValue(a, b) == a.t = b.t /\ a.v = b.v

\* the key the claim gives the first consumed column
MethodKey(headers) ==
    IF "coverage_sry" \in Range(headers) THEN "gender_sry"
    ELSE IF "het_fraction" \in Range(headers) THEN "gender_hetx"
    ELSE IF "reads_chry" \in Range(headers) THEN "gender_xy"
    ELSE headers[1]

\* C17: the fields stored for a sex prediction file are columns 2-6 of its header line
\* paired by position with columns 2-6 of its first data line, the first of them under
\* the method key (gender_xy, gender_hetx, gender_sry) with "male" as "M" and "female"
\* as "F"; a file of fewer than 2 lines yields an empty record.
C17_ColumnsTwoToSix ==
    /\ SexFileStored =>
          LET rec == DictGet(samplegender_data, s_name, <<>>)
              headers == Columns2To6(f.lines[1])
              values == Columns2To6(f.lines[2])
          IN  \A i \in 1..Min(Len(headers), Len(values)) :
                 LET key == IF i = 1 THEN MethodKey(headers) ELSE headers[i]
                     text == IF i = 1 /\ values[i] = "male" THEN "M"
                             ELSE IF i = 1 /\ values[i] = "female" THEN "F"
                             ELSE values[i]
                 IN  key \in DOMAIN rec /\ SameValue(rec[key], FieldValue(text))
    /\ (/\ module = "sample_gender" /\ pc = "xy" /\ outcome = "running"
        /\ f.kind = "gender" /\ Len(f.lines) < 2
        /\ s_name \in DictKeys(samplegender_data))
       => DOMAIN DictGet(samplegender_data, s_name, <<>>) = {}

\* a counts file was parsed without an exception and its record stored
HotFileStored ==
    /\ module = "MSH2_hotspot_varcount" /\ outcome \in {"running", "ok"}
    /\ f.kind = "hotspot" /\ Len(f.lines) >= 4
    /\ s_name \in DictKeys(MSH2_varcount_data)

\* the stored text of a column is made from the count text at that position
MadeFrom(text, counts, wild) ==
    /\ counts \in DOMAIN CountTable /\ wild \in DOMAIN CountTable
    /\ CountTable[counts] + CountTable[wild] > 0
    /\ LET h == RoundPercent(CountTable[counts], CountTable[wild] + CountTable[counts])
       IN  text \in {FloatRepr(h) \o "(" \o counts \o ")",
                     FloatRepr(h) \o "(" \o counts \o ") - Sangeren!"}

\* the record pairs names with values by position
PairedByPosition(rec, names, values) ==
    LET paired == DOMAIN names \cap DOMAIN values
    IN  /\ DOMAIN rec = {names[i] : i \in paired}
        /\ \A i \in paired :
              IF names[i] = wt THEN rec[wt] = values[i]
              ELSE \E j \in paired :
                      names[j] = wt /\ MadeFrom(rec[names[i]], values[i], values[j])

SameEntry(a, b) == a.t = b.t /\ (a.t # "absent" => a.v = b.v)

NormalisedKeys == {"include_contigs", "exclude_contigs", "perchrom_fraction_cutoff"}

SameMosdepth(a, b, keys) ==
    /\ a.kind = b.kind
    /\ a.kind = "dict" =>
          /\ a.general_stats_coverage = b.general_stats_coverage
          /\ \A k \in keys : SameEntry(a[k], b[k])

ButtonAttributes ==
    {"show_hide_buttons", "show_hide_patterns", "show_hide_mode", "show_hide_color",
     "show_hide_patterns,show_hide_color"}

SameAttributes(a, b, names) == \A k \in names : a[k] = b[k]

\* C19 as stated: no step of the coverage constructor changes an attribute of the
\* configuration object, the mosdepth_config mapping and the show_hide_* lists included.
C19_ConfigUntouched ==
    [][module = "coverage" =>
          /\ SameMosdepth(config.mosdepth_config, config'.mosdepth_config, NormalisedKeys)
          /\ SameAttributes(config, config', DOMAIN config \ {"mosdepth_config"})]_vars

\* C19: parse_cov_dist changes no attribute of the configuration object; read_config
\* changes nothing but the include_contigs, exclude_contigs and perchrom_fraction_cutoff
\* entries of a mosdepth_config that is a mapping, which it normalises in place; the
\* button set-up changes nothing but the show_hide_* attributes; the general-stats
\* set-up changes nothing.
C19_ConfigWrites ==
    [][module = "coverage" =>
          /\ SameMosdepth(config.mosdepth_config, config'.mosdepth_config,
                          IF pc = "start" THEN {} ELSE NormalisedKeys)
          /\ SameAttributes(config, config',
                            DOMAIN config \ ({"mosdepth_config"}
                                             \cup IF pc = "buttons" THEN ButtonAttributes
                                                  ELSE {}))]_vars

\* the constructor has finished on a mosdepth_config whose cutoff was the text "abc"
\* and whose include_contigs was missing, and has written the buttons of S1
C19_Witness ==
    /\ module = "coverage" /\ pc = "done"
    /\ config.mosdepth_config.kind = "dict"
    /\ config.mosdepth_config.general_stats_coverage = <<20>>
    /\ SameEntry(config.mosdepth_config.include_contigs, ListVal(<<>>))
    /\ SameEntry(config.mosdepth_config.perchrom_fraction_cutoff, FloatVal(0))
    /\ config.show_hide_buttons = Some(<<"S1">>)

\* the (depth, fraction) pairs the total rows of a file state
TotalPairs(content) ==
    {<<IntOf(content[i].cols[2]), FloatOf(content[i].cols[3])>> :
        i \in {k \in 1..Len(content) :
                 /\ Len(content[k].cols) = 3 /\ content[k].cols[1] = "total"
                 /\ IsIntLiteral(content[k].cols[2])
                 /\ IsFloatLiteral(content[k].cols[3])}}

\* pairs of a cumulative distribution: fractions in [0,1] that do not grow with depth
IsCumulative(pairs) ==
    /\ \A p \in pairs : 0 <= p[2] /\ p[2] <= 100
    /\ \A p, q \in pairs : p[1] < q[1] => p[2] >= q[2]

MappingPairs(cum) == {<<cum[i][1], cum[i][2]>> : i \in 1..Len(cum)}

\* a region distribution file has just been parsed without an exception
DistFileParsed ==
    /\ module = "coverage" /\ pc = "parse" /\ outcome = "running"
    /\ dist_files # <<>>

C21_DownsampleCapped ==
    [][(module = "coverage" /\ pc = "downsample") =>
          LET before == cum_fraction_by_cov
              after == cum_fraction_by_cov'
          IN  /\ Len(after) <= SmoothPoints
              /\ before # <<>> =>
                    /\ after # <<>>
                    /\ after[1] = before[1]
                    /\ after[Len(after)] = before[Len(before)]
              /\ Len(before) <= SmoothPoints => after = before
              /\ smooth_array(after, SmoothPoints) = after]_vars

\* a series of more than 500 points was downsampled to 500, ends kept
C21_Witness ==
    /\ module = "coverage" /\ pc = "file_done"
    /\ Len(cum_fraction_by_cov) = SmoothPoints
    /\ cum_fraction_by_cov[1][1] = MaxDepth
    /\ cum_fraction_by_cov[SmoothPoints][1] = 0

\* a line is a total row with an integer depth and a numeric fraction
IsTotalRow(l) ==
    /\ Len(l.cols) = 3 /\ l.cols[1] = "total"
    /\ IsIntLiteral(l.cols[2]) /\ IsFloatLiteral(l.cols[3])

\* the mapping of a file when its 0.00 total rows are kept with fraction 0.0
RECURSIVE KeepZeros(_, _, _)
KeepZeros(cum, content, i) ==
    IF i > Len(content) THEN cum
    ELSE KeepZeros(IF IsTotalRow(content[i])
                   THEN DictSet(cum, IntOf(content[i].cols[2]), FloatOf(content[i].cols[3]))
                   ELSE cum,
                   content, i + 1)

LastDistFile == dist_files[Len(dist_files)][2]

\* no depth has two total rows
DistinctDepths(content) ==
    \A i, j \in 1..Len(content) :
       (IsTotalRow(content[i]) /\ IsTotalRow(content[j])
        /\ IntOf(content[i].cols[2]) = IntOf(content[j].cols[2])) => i = j

\* C22 as stated: for every file the stored threshold percentages and median are
\* those computed from the mapping in which the 0.00 total rows are kept as 0.0.
C22_ZeroSkipInvisible ==
    (DistFileParsed /\ s_name \in DOMAIN genstats_by_sample)
    => genstats_by_sample[s_name]
          = SampleStats(KeepZeros(<<>>, LastDistFile, 1), CovThresholds(config))

\* C22: for every file in which no depth has two total rows, the stored threshold
\* percentages and median are those computed from the mapping in which the 0.00 total
\* rows are kept as 0.0.
C22_ZeroSkipInvisibleOnDistinctDepths ==
    (DistFileParsed /\ s_name \in DOMAIN genstats_by_sample /\ DistinctDepths(LastDistFile))
    => genstats_by_sample[s_name]
          = SampleStats(KeepZeros(<<>>, LastDistFile, 1), CovThresholds(config))

\* the file with the rows 20 -> 0.00 (skipped) and 0 -> 1.00 was parsed with the
\* threshold 20 configured
C22_Witness ==
    /\ DistFileParsed /\ s_name \in DOMAIN genstats_by_sample
    /\ LastDistFile = <<Row(<<"total", "20", "0.00">>), Row(<<"total", "0", "1.00">>)>>
    /\ 20 \in Range(CovThresholds(config))
    /\ genstats_by_sample[s_name]["20_x_pc"] = 0
    /\ genstats_by_sample[s_name]["median_coverage"] = Some(0)

\* C23: the sex vote raises no error whichever method files were found for a sample,
\* and once it has run every sample of the merged records holds calc_gender and
\* certainty.
C23_VoteCompletesForAnySubset ==
    module = "sample_gender" =>
       /\ outcome # "KeyError"
       /\ pc \in {"report", "done"} =>
             \A i \in 1..Len(samplegender_data) :
                {"calc_gender", "certainty"} \subseteq DOMAIN samplegender_data[i][2]

\* the files whose sample the button loop consults: name without underscore, present
\* in the general statistics
Consulted ==
    {i \in 1..Len(found) : Len(found[i]) = 1 /\ found[i] \in DOMAIN genstats_by_sample}

\* C24: when the button colouring starts, every sample it consults has a "20_x_pc"
\* entry, so the step raises nothing; and once it is over, the run of a consulted
\* sample is coloured #d9534f when the value is below 90 and #5cb85c otherwise.
C24_ButtonColouringSucceeds ==
    /\ (module = "coverage" /\ pc = "buttons") =>
          \A i \in Consulted : "20_x_pc" \in DOMAIN genstats_by_sample[found[i]]
    /\ (module = "coverage" /\ pc \in {"genstats", "done"}) =>
          \A i \in Consulted :
             (IF genstats_by_sample[found[i]]["20_x_pc"] < 9000
              THEN "#d9534f" ELSE "#5cb85c") \in Range(config.show_hide_color[1])

\* the distinct run names of the files, in order of first appearance
RECURSIVE RunNames(_, _, _)
RunNames(files, i, acc) ==
    IF i > Len(files) THEN acc
    ELSE RunNames(files, i + 1,
                  IF files[i][1] \in Range(acc) THEN acc ELSE Append(acc, files[i][1]))

\* C25: after the button set-up the four show_hide lists have the same length, one
\* entry per distinct run name in order of first appearance.
C25_ShowHideListsAligned ==
    (module = "coverage" /\ pc \in {"genstats", "done"}) =>
       LET names == RunNames(found, 1, <<>>) IN
          /\ config.show_hide_buttons = Some(names)
          /\ config.show_hide_patterns = Some(names)
          /\ Len(config.show_hide_mode[1]) = Len(names)
          /\ Len(config.show_hide_color[1]) = Len(names)

\* C26: whatever mosdepth_config holds, once read_config has run self.cfg is a mapping
\* with include_contigs and exclude_contigs as lists and perchrom_fraction_cutoff as a
\* float, so the cutoff can be read from it.
C26_ReadConfigComplete ==
    (module = "coverage" /\ pc # "start") =>
       /\ cfg.kind = "dict"
       /\ cfg.include_contigs.t = "list"
       /\ cfg.exclude_contigs.t = "list"
       /\ cfg.perchrom_fraction_cutoff.t = "float"

\* C27: a counts file of fewer than 4 lines raises nothing and yields an empty record.
C27_ShortFileEmptyRecord ==
    (module = "MSH2_hotspot_varcount" /\ f.kind = "hotspot" /\ Len(f.lines) < 4) =>
       /\ outcome \in {"running", "ok"}
       /\ s_name \in DictKeys(MSH2_varcount_data) =>
             DOMAIN DictGet(MSH2_varcount_data, s_name, <<>>) = {}

\* the category the claim assigns to a summary record
CategoryOf(d, t) ==
    IF d.num_sites <= t.min_sites_threshold THEN "Low-coverage"
    ELSE IF d.perc >= t.msi_high_threshold THEN "MSI-high"
    ELSE "MSS"

\* C28: once the report is made, every sample of the summary data has an entry with
\* exactly the keys MSS, MSI-high and Low-coverage, which carries perc under the
\* sample's category (Low-coverage when num_sites <= the minimum-sites threshold,
\* otherwise MSI-high when perc >= the MSI-high threshold, otherwise MSS) and 0 under
\* the other two; and all_zero is true exactly when every sample's perc is 0.
C28_OneCategoryPerSample ==
    (module = "msi_sensor_pro" /\ pc = "done") =>
       LET r == msisensorpro_data[1]
           t == thresholds[1]
       IN  /\ DictKeys(r.data) = DictKeys(data_summary)
           /\ \A s \in DictKeys(data_summary) :
                 LET d == DictGet(data_summary, s, <<>>)
                     e == DictGet(r.data, s, <<>>)
                 IN  /\ DOMAIN e = {"MSS", "MSI-high", "Low-coverage"}
                     /\ \A c \in DOMAIN e :
                           e[c] = IF c = CategoryOf(d, t) THEN d.perc ELSE 0
           /\ r.all_zero <=> \A s \in DictKeys(data_summary) :
                                DictGet(data_summary, s, <<>>).perc = 0

\* a report with one sample of 20 sites and 30 % (Low-coverage before MSI-high) and
\* one of 21 sites and 12.5 % (MSS)
C28_Witness ==
    /\ module = "msi_sensor_pro" /\ pc = "done"
    /\ DictKeys(data_summary) = {<<"S1">>, <<"S2">>}
    /\ DictGet(data_summary, <<"S1">>, <<>>)
          = [num_sites |-> 20, num_unstable_sites |-> 5, perc |-> 3000]
    /\ DictGet(msisensorpro_data[1].data, <<"S1">>, <<>>)["Low-coverage"] = 3000
    /\ DictGet(msisensorpro_data[1].data, <<"S2">>, <<>>)["MSS"] = 1250
    /\ ~msisensorpro_data[1].all_zero

\* the status the step has recorded for the row it read
RecordedStatus == DictGet(DictGet(sample_data', s_name, <<>>), locus_id(line'.cols), "")

\* C29: a well-formed row is recorded with exactly one status and its coverage in
\* brackets: Unstable when p > the row's threshold, whatever the coverage; otherwise
\* Low-coverage when the coverage < the coverage threshold; otherwise Stable (so at
\* coverage = the coverage threshold, and at p = the row's threshold, Stable).
C29_StatusOfRow ==
    [][(ReadsRow /\ line'.cols \in GoodRows) =>
          LET p == MsiNumberTable[line'.cols[7]]
              coverage == MsiCountTable[line'.cols[9]]
              threshold == MsiNumberTable[line'.cols[10]]
              bracket == " (" \o line'.cols[9] \o ")"
          IN  /\ p > threshold => RecordedStatus = "Unstable" \o bracket
              /\ (p <= threshold /\ coverage < thresholds[1].coverage_threshold)
                    => RecordedStatus = "Low-coverage" \o bracket
              /\ (p <= threshold /\ coverage >= thresholds[1].coverage_threshold)
                    => RecordedStatus = "Stable" \o bracket]_vars

\* the rows p = 0.60 at coverage 299 (Unstable below the coverage threshold) and
\* p = 0.50 = threshold at coverage 300 = coverage threshold (Stable) were recorded
C29_Witness ==
    /\ module = "msi_sensor_pro" /\ pc = "row"
    /\ line.cols = <<"chr1", "100", "A", "T", "5", "AC", "0.50", "0.1", "300", "0.50">>
    /\ DictGet(DictGet(sample_data, s_name, <<>>), "chr1:100", "") = "Stable (300)"
    /\ \E i \in 1..Len(sample_data) :
          DictGet(sample_data[i][2], "chr1:200", "") = "Unstable (299)"

\* C30: when parse_all returns, every sample of the result has an entry for every
\* locus seen in any file: the status its own file reported where there is one, and
\* "Low-coverage (0)" where there is none.
C30_AllSamplesShareLoci ==
    [][(module = "msi_sensor_pro" /\ pc = "all" /\ pc' = "report") =>
          /\ Len(sample_data') = Len(sample_data)
          /\ \A i \in 1..Len(sample_data) :
                LET reported == sample_data[i][2]
                    filled == sample_data'[i][2]
                IN  /\ sample_data'[i][1] = sample_data[i][1]
                    /\ DOMAIN filled = all_loci
                    /\ DictKeys(reported) \subseteq all_loci
                    /\ \A l \in all_loci :
                          filled[l] = IF l \in DictKeys(reported)
                                      THEN DictGet(reported, l, "")
                                      ELSE "Low-coverage (0)"]_vars

\* two samples whose files reported different loci, each filled for the other's locus
C30_Witness ==
    /\ module = "msi_sensor_pro" /\ pc = "report"
    /\ all_loci = {"chr1:100", "chr1:200"}
    /\ Len(sample_data) = 2
    /\ sample_data[1][2] = ("chr1:100" :> "Stable (300)" @@ "chr1:200" :> "Low-coverage (0)")
    /\ sample_data[2][2] = ("chr1:100" :> "Low-coverage (0)" @@ "chr1:200" :> "Unstable (299)")

====
